---- MODULE Spec2Model ----
(***************************************************************************)
(* Playback queue orchestrator of StreamBot (src/src/index.ts).            *)
(*                                                                         *)
(* The program is a single-threaded event loop: a handler or an async      *)
(* function runs without interruption up to its next await.  Every action  *)
(* below is one such synchronous stretch: a command handler from the       *)
(* message up to its first await, or the resumption of a suspended         *)
(* function up to its next await.                                          *)
(***************************************************************************)
EXTENDS Integers, Sequences, FiniteSets, TLC

\* ---------------------------------------------------------------- bounds
MaxItems   == 2    \* item objects ever created by add/batch
MaxItemsWide == 3  \* the same, in the specification of the three-item queues
MaxLog     == 12   \* events the observer of a scenario records
MaxLoops   == 2    \* activation records of playQueue that can exist at once
MaxHandles == 2    \* PCancelable objects / transmissions that can exist at once
MaxPending == 1    \* suspended add/batch handlers, and suspended stop handlers
MaxBatch   == 2    \* links in one batch command
MaxChains  == 2    \* chains of processQueue/playVideo that can exist at once (variant)

Items   == 1..MaxItemsWide
Loops   == 1..MaxLoops
Handles == 1..MaxHandles
\* currentPlayback when it refers to a PCancelable that has settled and that nothing
\* awaits any more (its finally block was left at line 269)
Stale   == -1
Chains  == 1..MaxChains
\* generateUID draws from 90000 * 26^3 strings; only which uids are equal matters, and
\* as many values as items give every pattern of equal and distinct uids.
UIDs    == 1..MaxItemsWide
\* A link is a remote reference (link.startsWith("http")), a local path given by the
\* operator, or the local path a pre-download wrote ("fetched").
Links   == {"local", "remote"}

VARIABLES
    videoQueue,      \* working queue: sequence of items [id, uid, link]
    originalQueue,   \* queue kept for looping: the same objects (same id)
    nitems,          \* item objects created so far
    loopEnabled,
    isPlayingQueue,
    stopRequested,
    currentPlayback, \* 0 (null), the PCancelable it refers to, or Stale
    joined,          \* streamStatus.joined
    inVoice,         \* the streamer holds a voice connection (joinVoice/leaveVoice)
    speaking,        \* mediaConnection.setSpeaking / setVideoStatus
    loopPc,          \* loopPc[l]: where activation l of playQueue is suspended
    loopNext,        \* loopNext[l]: its local `next` (NoItem: none)
    loopH,           \* loopH[l]: the PCancelable it awaits (0: none)
    hState,          \* hState[h]: "free", "pending", "resolved", "skipped", "canceled"
    txRunning,       \* txRunning[h]: streamLivestreamVideo of handle h is running
    startPending,    \* add/batch handlers suspended in `await sendSuccess`
    stopPending,     \* stop handlers suspended in `await streamer.leaveVoice()`
    stopCooling,     \* stop handlers suspended in the 500 ms timer of cleanupStreamStatus;
                     \*   all they have left to do is to send their reply, so they are
                     \*   counted only while the observer records the replies
    rndPc,           \* where the handler of random (and its playback) is suspended
    rndH,            \* the PCancelable the playback of random awaits (0: none)
    pqPlaying,       \* processQueue variant: streamStatus.playing
    pqPc,            \* processQueue variant: where chain c of processQueue/playVideo is suspended
    pqItem,          \* processQueue variant: the id of the item chain c shifted (0: none)
    pqCommand,       \* processQueue variant: the chain whose PCancelable `command` holds (0: none)
    pqChannel,       \* processQueue variant: Discord has the bot in the voice channel, as
                     \*   told to the handler of voiceStateUpdate
    pqRndPc,         \* processQueue variant: where the handler of random is suspended
    stopAt,          \* history: where activation l was suspended when the first stop
                     \*   command of its run arrived ("none": no stop yet)
    ignored,         \* history: a call of playQueue returned at line 188 during this run
    stopsInRow,      \* history: stop commands since the last other command (2: two or more)
    observing,       \* history: which of the histories this behaviour records (a subset of
                     \*   Histories; it never changes)
    log              \* history: the recorded events, oldest first

queueVars  == <<videoQueue, originalQueue>>
itemVars   == <<nitems>>
flagVars   == <<loopEnabled, isPlayingQueue, stopRequested>>
sessVars   == <<joined, inVoice, speaking>>
loopVars   == <<loopPc, loopNext, loopH>>
handleVars == <<currentPlayback, hState, txRunning>>
rndVars    == <<rndPc, rndH>>
pqVars     == <<pqPlaying, pqPc, pqItem, pqCommand, pqChannel, pqRndPc>>
cmdVars    == <<startPending, stopPending, stopCooling, rndVars, pqVars>>
histVars   == <<stopAt, ignored, stopsInRow, observing, log>>
vars == <<queueVars, itemVars, flagVars, sessVars, loopVars, handleVars, cmdVars, histVars>>

\* ---------------------------------------------------------------- helpers
Range(s) == {s[k] : k \in 1..Len(s)}

Min(S) == CHOOSE x \in S : \A y \in S : x <= y

\* An item is an object {uid, link}; id stands for the object's identity: the same
\* object sits in videoQueue, in originalQueue and in a loop's `next`.
NoItem == [id |-> 0, uid |-> 0, link |-> "none"]

\* Array.prototype.findIndex(item => item.uid === u): first index, 0 for -1
FindIndex(q, u) ==
    IF \E k \in 1..Len(q) : q[k].uid = u
    THEN Min({k \in 1..Len(q) : q[k].uid = u})
    ELSE 0

\* obj.link = v, seen through every reference to the object
SetLink(q, id, v) ==
    [k \in 1..Len(q) |-> IF q[k].id = id THEN [q[k] EXCEPT !.link = v] ELSE q[k]]

Ids(q) == {q[k].id : k \in 1..Len(q)}
LiveUids == {q.uid : q \in Range(videoQueue) \cup Range(originalQueue)}
               \cup ({loopNext[l].uid : l \in Loops} \ {0})

\* index.ts 83-91: generateUID.  The value is random: it may equal a uid in use, or
\* be one not in use (which one does not matter: the least stands for all).
GenerateUID(used) == {u \in UIDs : u \in used \/ \A v \in UIDs \ used : u <= v}

\* Array.prototype.splice(k, 1)
Splice(q, k) == [j \in 1..(Len(q) - 1) |-> IF j < k THEN q[j] ELSE q[j + 1]]

ActiveLoops == {l \in Loops : loopPc[l] # "idle"}
LiveHandles == {h \in Handles : hState[h] = "pending"}
FreeHandles == {h \in Handles : hState[h] = "free" /\ ~txRunning[h]}

\* The histories an observer can record: the log of events (or, instead of the log,
\* the replies to remove commands alone, or a note of the retries of a pre-download
\* alone), and the three history variables of the stop and playQueue calls
Histories == {"log", "replies", "retries", "stopAt", "ignored", "stopsInRow"}

\* The new value of history variable `name`: new when it is recorded, old otherwise
Recorded(name, old, new) == IF name \in observing THEN new ELSE old

\* What the observer adds to its record
Observed(events) ==
    IF "log" \in observing THEN events
    ELSE IF "replies" \in observing THEN SelectSeq(events, LAMBDA e : e.kind = "remove")
    ELSE <<>>

\* The event is the shift of the very item whose pre-download an activation is
\* leaving: index.ts 219-222 (`continue`), 206-213 (refill, shift) and 217 again
Retry(e) ==
    /\ e.kind = "pop"
    /\ \E l \in Loops : loopPc[l] = "download" /\ loopNext[l].id = e.id

\* The note of the observer of the retries: a retry puts the shift there, or takes
\* it away when the note already holds one (so that a retry always changes the
\* note), and any other event clears the note
RetryNote(events) ==
    IF log = <<>> /\ \E k \in 1..Len(events) : Retry(events[k])
    THEN SelectSeq(events, Retry)
    ELSE <<>>

Observe(events) ==
    IF "log" \in observing \/ "retries" \notin observing
    THEN SubSeq(log \o Observed(events), 1, Min({MaxLog, Len(log) + Len(Observed(events))}))
    ELSE RetryNote(events)

Event(kind, item) == [kind |-> kind, id |-> item.id, link |-> item.link]

\* ---------------------------------------------------------------- initial state
InitProgram ==
    /\ videoQueue = <<>>
    /\ originalQueue = <<>>
    /\ nitems = 0
    /\ loopEnabled = FALSE
    /\ isPlayingQueue = FALSE
    /\ stopRequested = FALSE
    /\ currentPlayback = 0
    /\ joined = FALSE
    /\ inVoice = FALSE
    /\ speaking = FALSE
    /\ loopPc = [l \in Loops |-> "idle"]
    /\ loopNext = [l \in Loops |-> NoItem]
    /\ loopH = [l \in Loops |-> 0]
    /\ hState = [h \in Handles |-> "free"]
    /\ txRunning = [h \in Handles |-> FALSE]
    /\ startPending = 0
    /\ stopPending = 0
    /\ stopCooling = 0
    /\ rndPc = "idle"
    /\ rndH = 0
    /\ pqPlaying = FALSE
    /\ pqPc = [c \in Chains |-> "idle"]
    /\ pqItem = [c \in Chains |-> 0]
    /\ pqCommand = 0
    /\ pqChannel = FALSE
    /\ pqRndPc = "idle"
    /\ stopAt = [l \in Loops |-> "none"]
    /\ ignored = FALSE
    /\ stopsInRow = 0
    /\ log = <<>>

Init == InitProgram /\ observing = {}

\* ---------------------------------------------------------------- playQueue entry
\* index.ts 187-199: playQueue() from its call up to the first await.  The caller's
\* test `if (!isPlayingQueue)` (294, 332) and the function's own `if (isPlayingQueue)
\* return` (188) are the same test in the same synchronous stretch.
PlayQueueEnter ==
    LET l == Min(Loops \ ActiveLoops) IN
    /\ isPlayingQueue' = TRUE
    /\ stopRequested' = FALSE
    /\ loopPc' = [loopPc EXCEPT ![l] = IF joined THEN "createStream" ELSE "joinVoice"]
    /\ loopNext' = [loopNext EXCEPT ![l] = NoItem]
    /\ loopH' = [loopH EXCEPT ![l] = 0]
    /\ stopAt' = Recorded("stopAt", stopAt, [stopAt EXCEPT ![l] = "none"])
    /\ log' = Observe(<<Event("acquire", NoItem)>>)
    /\ UNCHANGED <<loopEnabled, ignored>>

\* playQueue without line 188 and without the callers' test
PlayQueueUnguarded ==
    IF ActiveLoops = Loops
    THEN /\ ignored' = Recorded("ignored", ignored, TRUE)
         /\ UNCHANGED <<flagVars, loopVars, stopAt, log>>
    ELSE PlayQueueEnter

PlayQueue ==
    IF isPlayingQueue
    THEN /\ ignored' = Recorded("ignored", ignored, TRUE)
         /\ UNCHANGED <<flagVars, loopVars, stopAt, log>>
    ELSE PlayQueueEnter

\* add that puts the new item at the front of the working queue (unshift for push)
AddItemFront(lnk, u, max) ==
    IF lnk = ""
    THEN UNCHANGED vars
    ELSE /\ nitems < max
         /\ startPending < MaxPending
         /\ LET item == [id |-> nitems + 1, uid |-> u, link |-> lnk] IN
            /\ videoQueue' = <<item>> \o videoQueue
            /\ originalQueue' = Append(originalQueue, item)
         /\ nitems' = nitems + 1
         /\ startPending' = startPending + 1
         /\ stopsInRow' = Recorded("stopsInRow", stopsInRow, 0)
         /\ UNCHANGED <<flagVars, sessVars, loopVars, handleVars, stopPending, stopCooling, rndVars, pqVars,
                        stopAt, ignored, observing, log>>

\* ---------------------------------------------------------------- command handlers
\* index.ts 282-293: add, up to `await sendSuccess`.  lnk = "" is the empty argument;
\* max is the bound on item objects.
AddItem(lnk, u, max) ==
    IF lnk = ""
    THEN UNCHANGED vars
    ELSE /\ nitems < max
         /\ startPending < MaxPending
         /\ LET item == [id |-> nitems + 1, uid |-> u, link |-> lnk] IN
            /\ videoQueue' = Append(videoQueue, item)
            /\ originalQueue' = Append(originalQueue, item)
         /\ nitems' = nitems + 1
         /\ startPending' = startPending + 1
         /\ stopsInRow' = Recorded("stopsInRow", stopsInRow, 0)
         /\ UNCHANGED <<flagVars, sessVars, loopVars, handleVars, stopPending, stopCooling, rndVars, pqVars,
                        stopAt, ignored, observing, log>>

Add(lnk, u) == AddItem(lnk, u, MaxItems)

\* batch that pushes to originalQueue in the opposite order
BatchItemsReversed(lnks, us, max) ==
    IF Len(lnks) = 0
    THEN UNCHANGED vars
    ELSE /\ nitems + Len(lnks) <= max
         /\ startPending < MaxPending
         /\ LET new == [j \in 1..Len(lnks) |->
                           [id |-> nitems + j, uid |-> us[j], link |-> lnks[j]]] IN
            /\ videoQueue' = videoQueue \o new
            /\ originalQueue' = originalQueue \o
                                    [j \in 1..Len(lnks) |-> new[Len(lnks) + 1 - j]]
         /\ nitems' = nitems + Len(lnks)
         /\ startPending' = startPending + 1
         /\ stopsInRow' = Recorded("stopsInRow", stopsInRow, 0)
         /\ UNCHANGED <<flagVars, sessVars, loopVars, handleVars, stopPending, stopCooling, rndVars, pqVars,
                        stopAt, ignored, observing, log>>

\* index.ts 297-331: batch, up to `await sendSuccess`; the for loop of 325-330 has no
\* await in it.  lnks = <<>> is a text without links.
BatchItems(lnks, us, max) ==
    IF Len(lnks) = 0
    THEN UNCHANGED vars
    ELSE /\ nitems + Len(lnks) <= max
         /\ startPending < MaxPending
         /\ LET new == [j \in 1..Len(lnks) |->
                           [id |-> nitems + j, uid |-> us[j], link |-> lnks[j]]] IN
            /\ videoQueue' = videoQueue \o new
            /\ originalQueue' = originalQueue \o new
         /\ nitems' = nitems + Len(lnks)
         /\ startPending' = startPending + 1
         /\ stopsInRow' = Recorded("stopsInRow", stopsInRow, 0)
         /\ UNCHANGED <<flagVars, sessVars, loopVars, handleVars, stopPending, stopCooling, rndVars, pqVars,
                        stopAt, ignored, observing, log>>

Batch(lnks, us) == BatchItems(lnks, us, MaxItems)

\* index.ts 294 / 332: add or batch resumes after sendSuccess and calls playQueue
\* unless the loop is running.
AddResume ==
    /\ startPending > 0
    /\ startPending' = startPending - 1
    /\ PlayQueue
    /\ UNCHANGED <<queueVars, itemVars, sessVars, handleVars, stopPending, stopCooling, rndVars, pqVars,
                   stopsInRow, observing>>

\* index.ts 293 / 331: the reply of add or batch rejects; the handler ends without
\* calling playQueue.
AddReplyRejected ==
    /\ startPending > 0
    /\ startPending' = startPending - 1
    /\ UNCHANGED <<queueVars, itemVars, flagVars, sessVars, loopVars, handleVars,
                   stopPending, stopCooling, rndVars, pqVars, histVars>>

\* The reply of remove <uid> as the observer records it
RemoveEvent(u, reply) == [kind |-> "remove", id |-> u, link |-> reply]

\* remove that takes the item out of whichever queue has it
RemoveFromEither(u) ==
    LET index == FindIndex(videoQueue, u)
        originalIndex == FindIndex(originalQueue, u) IN
    /\ IF index = 0 /\ originalIndex = 0
       THEN /\ UNCHANGED queueVars
            /\ log' = Observe(<<RemoveEvent(u, "error")>>)
       ELSE /\ videoQueue' = IF index = 0 THEN videoQueue ELSE Splice(videoQueue, index)
            /\ originalQueue' = IF originalIndex = 0 THEN originalQueue
                                                     ELSE Splice(originalQueue, originalIndex)
            /\ log' = Observe(<<RemoveEvent(u, "success")>>)
    /\ stopsInRow' = Recorded("stopsInRow", stopsInRow, 0)
    /\ UNCHANGED <<itemVars, flagVars, sessVars, loopVars, handleVars, cmdVars,
                   stopAt, ignored, observing>>

\* index.ts 344-360: remove <uid>.
Remove(u) ==
    LET index == FindIndex(videoQueue, u)
        originalIndex == FindIndex(originalQueue, u) IN
    /\ IF index = 0 \/ originalIndex = 0
       THEN /\ UNCHANGED queueVars
            /\ log' = Observe(<<RemoveEvent(u, "error")>>)
       ELSE /\ videoQueue' = Splice(videoQueue, index)
            /\ originalQueue' = Splice(originalQueue, originalIndex)
            /\ log' = Observe(<<RemoveEvent(u, "success")>>)
    /\ stopsInRow' = Recorded("stopsInRow", stopsInRow, 0)
    /\ UNCHANGED <<itemVars, flagVars, sessVars, loopVars, handleVars, cmdVars,
                   stopAt, ignored, observing>>

\* the loop command that also empties the working queue
LoopCmdClearsPending(mode) ==
    /\ loopEnabled' = IF mode = "on" THEN TRUE ELSE IF mode = "off" THEN FALSE ELSE loopEnabled
    /\ videoQueue' = <<>>
    /\ stopsInRow' = Recorded("stopsInRow", stopsInRow, 0)
    /\ UNCHANGED <<originalQueue, itemVars, isPlayingQueue, stopRequested, sessVars, loopVars,
                   handleVars, cmdVars, stopAt, ignored, observing, log>>

\* index.ts 361-373: loop on | off | anything else.
LoopCmd(mode) ==
    /\ loopEnabled' = IF mode = "on" THEN TRUE ELSE IF mode = "off" THEN FALSE ELSE loopEnabled
    /\ stopsInRow' = Recorded("stopsInRow", stopsInRow, 0)
    /\ UNCHANGED <<queueVars, itemVars, isPlayingQueue, stopRequested, sessVars, loopVars,
                   handleVars, cmdVars, stopAt, ignored, observing, log>>

\* p-cancelable cancel(): settles a pending promise with CancelError (onCancel handler
\* of index.ts 248-250); a settled one is left alone.  The transmission is not told.
Cancel(h) == [hState EXCEPT ![h] = IF hState[h] = "pending" THEN "canceled" ELSE hState[h]]

\* stop without line 380
StopKeepsTemplate ==
    /\ stopPending + stopCooling < MaxPending
    /\ stopRequested' = TRUE
    /\ hState' = IF currentPlayback \in Handles THEN Cancel(currentPlayback) ELSE hState
    /\ videoQueue' = <<>>
    /\ inVoice' = FALSE
    /\ stopPending' = stopPending + 1
    /\ stopAt' = Recorded("stopAt", stopAt,
                  [l \in Loops |-> IF stopAt[l] = "none" /\ loopPc[l] # "idle"
                                   THEN loopPc[l]
                                   ELSE stopAt[l]])
    /\ stopsInRow' = Recorded("stopsInRow", stopsInRow, IF stopsInRow = 0 THEN 1 ELSE 2)
    /\ UNCHANGED <<originalQueue, itemVars, loopEnabled, isPlayingQueue, joined, speaking,
                   loopVars, currentPlayback, txRunning, startPending, stopCooling, rndVars, pqVars, ignored, observing,
                   log>>

\* stop that also declares the loop over (isPlayingQueue = false)
StopResetsRunning ==
    /\ stopPending + stopCooling < MaxPending
    /\ stopRequested' = TRUE
    /\ isPlayingQueue' = FALSE
    /\ hState' = IF currentPlayback \in Handles THEN Cancel(currentPlayback) ELSE hState
    /\ videoQueue' = <<>>
    /\ originalQueue' = <<>>
    /\ inVoice' = FALSE
    /\ stopPending' = stopPending + 1
    /\ stopAt' = Recorded("stopAt", stopAt,
                  [l \in Loops |-> IF stopAt[l] = "none" /\ loopPc[l] # "idle"
                                   THEN loopPc[l]
                                   ELSE stopAt[l]])
    /\ stopsInRow' = Recorded("stopsInRow", stopsInRow, IF stopsInRow = 0 THEN 1 ELSE 2)
    /\ UNCHANGED <<itemVars, loopEnabled, joined, speaking, loopVars, currentPlayback,
                   txRunning, startPending, stopCooling, rndVars, pqVars, ignored, observing, log>>

\* index.ts 374-381 with 448-449: stop, up to `await streamer.leaveVoice()` inside
\* cleanupStreamStatus.
Stop ==
    /\ stopPending + stopCooling < MaxPending
    /\ stopRequested' = TRUE
    /\ hState' = IF currentPlayback \in Handles THEN Cancel(currentPlayback) ELSE hState
    /\ videoQueue' = <<>>
    /\ originalQueue' = <<>>
    /\ inVoice' = FALSE
    /\ stopPending' = stopPending + 1
    /\ stopAt' = Recorded("stopAt", stopAt,
                  [l \in Loops |-> IF stopAt[l] = "none" /\ loopPc[l] # "idle"
                                   THEN loopPc[l]
                                   ELSE stopAt[l]])
    /\ stopsInRow' = Recorded("stopsInRow", stopsInRow, IF stopsInRow = 0 THEN 1 ELSE 2)
    /\ UNCHANGED <<itemVars, loopEnabled, isPlayingQueue, joined, speaking, loopVars,
                   currentPlayback, txRunning, startPending, stopCooling, rndVars, pqVars, ignored, observing, log>>

\* index.ts 449-455: leaveVoice has resolved and the stop handler resumes inside
\* cleanupStreamStatus, up to its timer of 500 ms.
StopCleanup ==
    /\ stopPending > 0
    /\ stopPending' = stopPending - 1
    /\ stopCooling' = IF "log" \in observing THEN stopCooling + 1 ELSE stopCooling
    /\ joined' = FALSE
    /\ UNCHANGED <<queueVars, itemVars, flagVars, inVoice, speaking, loopVars, handleVars,
                   startPending, rndVars, pqVars, histVars>>

\* index.ts 455-460, 382: the timer fires, cleanupStreamStatus returns and the stop
\* handler sends its reply.
StopCleanupDone ==
    /\ stopCooling > 0
    /\ stopCooling' = stopCooling - 1
    /\ log' = Observe(<<Event("stopped", NoItem)>>)
    /\ UNCHANGED <<queueVars, itemVars, flagVars, sessVars, loopVars, handleVars,
                   startPending, stopPending, rndVars, pqVars, stopAt, ignored, stopsInRow,
                   observing>>

\* ---------------------------------------------------------------- the loop of playQueue
\* cleanupStreamStatus without the call of leaveVoice
LeaveLoopKeepsVoice(l) ==
    /\ inVoice' = inVoice
    /\ loopPc' = [loopPc EXCEPT ![l] = "cleanupLeave"]
    /\ log' = Observe(<<Event("release", NoItem)>>)
    /\ UNCHANGED speaking

\* index.ts 233 with 448-449: the loop is left; cleanupStreamStatus runs up to
\* `await streamer.leaveVoice()`.
LeaveLoop(l) ==
    /\ inVoice' = FALSE
    /\ loopPc' = [loopPc EXCEPT ![l] = "cleanupLeave"]
    /\ log' = Observe(<<Event("release", NoItem)>>)
    /\ UNCHANGED speaking

\* index.ts 225-227 with 239-243: playVideoWithConnection is called and runs up to
\* `await sendPlain(... Now Playing ...)`.
StartPlay(l) ==
    /\ speaking' = TRUE
    /\ loopPc' = [loopPc EXCEPT ![l] = "nowPlaying"]
    /\ UNCHANGED inVoice

\* index.ts 217: preDownloadVideo is called and awaited.
StartDownload(l) ==
    /\ loopPc' = [loopPc EXCEPT ![l] = "download"]
    /\ UNCHANGED <<inVoice, speaking>>

\* the refill that does not look at the loop flag
RefilledAlways ==
    IF Len(videoQueue) = 0 /\ Len(originalQueue) > 0
    THEN originalQueue
    ELSE videoQueue

\* index.ts 206-212: the queue the loop pops from, after the refill if there is one
Refilled ==
    IF Len(videoQueue) = 0 /\ loopEnabled /\ Len(originalQueue) > 0
    THEN originalQueue
    ELSE videoQueue

\* the loop that pre-downloads every item, whatever its link
LoopTopAlwaysDownloads(l) ==
    IF stopRequested \/ Len(Refilled) = 0
    THEN /\ LeaveLoop(l)
         /\ loopNext' = [loopNext EXCEPT ![l] = NoItem]
         /\ UNCHANGED videoQueue
    ELSE /\ loopNext' = [loopNext EXCEPT ![l] = Head(Refilled)]
         /\ videoQueue' = Tail(Refilled)
         /\ StartDownload(l)
         /\ log' = Observe(<<Event("pop", Head(Refilled))>>)

\* the loop that takes the last pending item (pop() for shift())
LoopTopPopsLast(l) ==
    LET last == Refilled[Len(Refilled)] IN
    IF stopRequested \/ Len(Refilled) = 0
    THEN /\ LeaveLoop(l)
         /\ loopNext' = [loopNext EXCEPT ![l] = NoItem]
         /\ UNCHANGED videoQueue
    ELSE /\ loopNext' = [loopNext EXCEPT ![l] = last]
         /\ videoQueue' = SubSeq(Refilled, 1, Len(Refilled) - 1)
         /\ IF last.link = "remote"
            THEN /\ StartDownload(l)
                 /\ log' = Observe(<<Event("pop", last)>>)
            ELSE /\ StartPlay(l)
                 /\ log' = Observe(<<Event("pop", last), Event("play", last)>>)

\* index.ts 205-217: from the test of the while loop up to the next await (the
\* pre-download of a remote item, the notification of a local one) or the exit.
LoopTop(l) ==
    IF stopRequested \/ Len(Refilled) = 0
    THEN /\ LeaveLoop(l)
         /\ loopNext' = [loopNext EXCEPT ![l] = NoItem]
         /\ UNCHANGED videoQueue
    ELSE /\ loopNext' = [loopNext EXCEPT ![l] = Head(Refilled)]
         /\ videoQueue' = Tail(Refilled)
         /\ IF Head(Refilled).link = "remote"
            THEN /\ StartDownload(l)
                 /\ log' = Observe(<<Event("pop", Head(Refilled))>>)
            ELSE /\ StartPlay(l)
                 /\ log' = Observe(<<Event("pop", Head(Refilled)),
                                     Event("play", Head(Refilled))>>)

\* index.ts 194-195: joinVoice resolves, createStream is called.
JoinVoiceDone(l) ==
    /\ loopPc[l] = "joinVoice"
    /\ inVoice' = TRUE
    /\ loopPc' = [loopPc EXCEPT ![l] = "createStreamJoined"]
    /\ UNCHANGED <<queueVars, itemVars, flagVars, joined, speaking, loopNext, loopH,
                   handleVars, cmdVars, histVars>>

\* the catch of 200-204 without `isPlayingQueue = false`
AcquireFailStuck(l) ==
    /\ loopPc[l] \in {"joinVoice", "createStreamJoined", "createStream"}
    /\ loopPc' = [loopPc EXCEPT ![l] = "idle"]
    /\ stopAt' = Recorded("stopAt", stopAt, [stopAt EXCEPT ![l] = "none"])
    /\ ignored' = Recorded("ignored", ignored, FALSE)
    /\ UNCHANGED <<queueVars, itemVars, flagVars, sessVars, loopNext,
                   loopH, handleVars, cmdVars, stopsInRow, observing, log>>

\* index.ts 200-204: joinVoice or createStream rejects.
AcquireFail(l) ==
    /\ loopPc[l] \in {"joinVoice", "createStreamJoined", "createStream"}
    /\ isPlayingQueue' = FALSE
    /\ loopPc' = [loopPc EXCEPT ![l] = "idle"]
    /\ stopAt' = Recorded("stopAt", stopAt, [stopAt EXCEPT ![l] = "none"])
    /\ ignored' = Recorded("ignored", ignored, FALSE)
    /\ UNCHANGED <<queueVars, itemVars, loopEnabled, stopRequested, sessVars, loopNext,
                   loopH, handleVars, cmdVars, stopsInRow, observing, log>>

\* index.ts 195-196 / 198, then 205-217: createStream resolves, the loop starts.
CreateStreamDone(l) ==
    /\ loopPc[l] \in {"createStreamJoined", "createStream"}
    /\ joined' = IF loopPc[l] = "createStreamJoined" THEN TRUE ELSE joined
    /\ LoopTop(l)
    /\ UNCHANGED <<originalQueue, itemVars, flagVars, loopH, handleVars, cmdVars,
                   stopAt, ignored, stopsInRow, observing>>

\* the pre-download whose path reaches only the popped copy, not the queued object
PreDownloadDoneCopy(l) ==
    LET nxt == [loopNext[l] EXCEPT !.link = "fetched"] IN
    /\ loopPc[l] = "download"
    /\ loopNext' = [loopNext EXCEPT ![l] = nxt]
    /\ IF stopRequested
       THEN LeaveLoop(l)
       ELSE StartPlay(l) /\ log' = Observe(<<Event("play", nxt)>>)
    /\ UNCHANGED <<queueVars, itemVars, flagVars, joined, loopH, handleVars, cmdVars,
                   stopAt, ignored, stopsInRow, observing>>

\* the pre-download without the second test of the stop flag (line 224)
PreDownloadDoneNoRecheck(l) ==
    LET id == loopNext[l].id
        nxt == [loopNext[l] EXCEPT !.link = "fetched"] IN
    /\ loopPc[l] = "download"
    /\ originalQueue' = SetLink(originalQueue, id, "fetched")
    /\ videoQueue' = SetLink(videoQueue, id, "fetched")
    /\ loopNext' = [m \in Loops |-> IF loopNext[m].id = id THEN nxt ELSE loopNext[m]]
    /\ StartPlay(l)
    /\ log' = Observe(<<Event("play", nxt)>>)
    /\ UNCHANGED <<itemVars, flagVars, joined, loopH, handleVars, cmdVars,
                   stopAt, ignored, stopsInRow, observing>>

\* index.ts 217-218, 224-227: the pre-download resolves.
PreDownloadDone(l) ==
    LET id == loopNext[l].id
        nxt == [loopNext[l] EXCEPT !.link = "fetched"] IN
    /\ loopPc[l] = "download"
    /\ originalQueue' = SetLink(originalQueue, id, "fetched")
    /\ videoQueue' = SetLink(videoQueue, id, "fetched")
    /\ loopNext' = [m \in Loops |-> IF loopNext[m].id = id THEN nxt ELSE loopNext[m]]
    /\ IF stopRequested
       THEN LeaveLoop(l)
       ELSE StartPlay(l) /\ log' = Observe(<<Event("play", nxt)>>)
    /\ UNCHANGED <<itemVars, flagVars, joined, loopH, handleVars, cmdVars,
                   stopAt, ignored, stopsInRow, observing>>

\* the pre-download failure that ends the loop (`break` for `continue`)
PreDownloadFailBreak(l) ==
    /\ loopPc[l] = "download"
    /\ LeaveLoop(l)
    /\ loopNext' = [loopNext EXCEPT ![l] = NoItem]
    /\ UNCHANGED <<queueVars, itemVars, flagVars, joined, loopH, handleVars, cmdVars,
                   stopAt, ignored, stopsInRow, observing>>

\* index.ts 219-222, then 205-217: the pre-download rejects, `continue`.
PreDownloadFail(l) ==
    /\ loopPc[l] = "download"
    /\ LoopTop(l)
    /\ UNCHANGED <<originalQueue, itemVars, flagVars, joined, loopH, handleVars, cmdVars,
                   stopAt, ignored, stopsInRow, observing>>

\* index.ts 243-260: the notification is sent; the PCancelable is created, its
\* executor calls streamLivestreamVideo, and the function awaits it.
NowPlayingSent(l) ==
    /\ loopPc[l] = "nowPlaying"
    /\ FreeHandles # {}
    /\ LET h == Min(FreeHandles) IN
       /\ hState' = [hState EXCEPT ![h] = "pending"]
       /\ txRunning' = [txRunning EXCEPT ![h] = TRUE]
       /\ currentPlayback' = h
       /\ loopH' = [loopH EXCEPT ![l] = h]
    /\ loopPc' = [loopPc EXCEPT ![l] = "transmit"]
    /\ log' = Observe(<<Event("transmit", loopNext[l])>>)
    /\ UNCHANGED <<queueVars, itemVars, flagVars, sessVars, loopNext, cmdVars,
                   stopAt, ignored, stopsInRow, observing>>

\* index.ts 243, 228-231: the notification "Now Playing" rejects.
\* playVideoWithConnection throws before its try block: no PCancelable is created,
\* the indicators set at 240-241 stay on, playQueue logs the error and starts the
\* cooldown timer.
NowPlayingRejected(l) ==
    /\ loopPc[l] = "nowPlaying"
    /\ loopPc' = [loopPc EXCEPT ![l] = "cooldown"]
    /\ UNCHANGED <<queueVars, itemVars, flagVars, sessVars, loopNext, loopH, handleVars,
                   cmdVars, histVars>>

\* The item whose playback awaits handle h
Awaited(h) ==
    IF \E l \in Loops : loopH[l] = h
    THEN loopNext[CHOOSE l \in Loops : loopH[l] = h]
    ELSE NoItem

\* index.ts 252-253: streamLivestreamVideo resolves.
TransmitEnd(h) ==
    /\ txRunning[h]
    /\ txRunning' = [txRunning EXCEPT ![h] = FALSE]
    /\ hState' = [hState EXCEPT ![h] = IF hState[h] = "pending" THEN "resolved" ELSE hState[h]]
    /\ UNCHANGED <<queueVars, itemVars, flagVars, sessVars, loopVars, currentPlayback,
                   cmdVars, histVars>>

\* index.ts 254-258: streamLivestreamVideo rejects.
TransmitError(h) ==
    /\ txRunning[h]
    /\ txRunning' = [txRunning EXCEPT ![h] = FALSE]
    /\ hState' = [hState EXCEPT ![h] = IF hState[h] = "pending" THEN "skipped" ELSE hState[h]]
    /\ log' = IF hState[h] = "pending" THEN Observe(<<Event("skip", Awaited(h))>>) ELSE log
    /\ UNCHANGED <<queueVars, itemVars, flagVars, sessVars, loopVars, currentPlayback,
                   cmdVars, stopAt, ignored, stopsInRow, observing>>

\* playVideoWithConnection without the await of line 260
PlaybackNotAwaited(l) ==
    /\ loopPc[l] = "transmit"
    /\ speaking' = FALSE
    /\ loopPc' = [loopPc EXCEPT ![l] = "finished"]
    /\ UNCHANGED <<queueVars, itemVars, flagVars, joined, inVoice, loopNext, loopH,
                   handleVars, cmdVars, histVars>>

\* playVideoWithConnection that lets a skipped playback end the loop
PlaybackSettledSkipFatal(l) ==
    /\ loopPc[l] = "transmit"
    /\ hState[loopH[l]] # "pending"
    /\ IF hState[loopH[l]] = "skipped"
       THEN LeaveLoop(l)
       ELSE /\ speaking' = FALSE
            /\ loopPc' = [loopPc EXCEPT ![l] = "finished"]
            /\ UNCHANGED <<inVoice, log>>
    /\ UNCHANGED <<queueVars, itemVars, flagVars, joined, loopNext, loopH,
                   handleVars, cmdVars, stopAt, ignored, stopsInRow, observing>>

\* index.ts 260-269: the awaited PCancelable has settled; catch and finally run up to
\* `await sendPlain(... Finished ...)`.
PlaybackSettled(l) ==
    /\ loopPc[l] = "transmit"
    /\ hState[loopH[l]] # "pending"
    /\ speaking' = FALSE
    /\ loopPc' = [loopPc EXCEPT ![l] = "finished"]
    /\ UNCHANGED <<queueVars, itemVars, flagVars, joined, inVoice, loopNext, loopH,
                   handleVars, cmdVars, histVars>>

\* index.ts 270, 231: the notification is sent; currentPlayback = null; back in
\* playQueue the cooldown timer is started.
FinishedSent(l) ==
    /\ loopPc[l] = "finished"
    /\ currentPlayback' = 0
    /\ hState' = [hState EXCEPT ![loopH[l]] = IF hState[loopH[l]] = "pending"
                                                THEN "pending"
                                                ELSE "free"]
    /\ loopH' = [loopH EXCEPT ![l] = 0]
    /\ loopPc' = [loopPc EXCEPT ![l] = "cooldown"]
    /\ UNCHANGED <<queueVars, itemVars, flagVars, sessVars, loopNext, txRunning,
                   cmdVars, histVars>>

\* index.ts 269, 228-231: the notification "Finished" rejects.  Line 270 is not
\* reached: currentPlayback keeps referring to the settled PCancelable, which nothing
\* awaits any more; playQueue logs the error and starts the cooldown timer.
FinishedRejected(l) ==
    /\ loopPc[l] = "finished"
    /\ hState' = [hState EXCEPT ![loopH[l]] = IF hState[loopH[l]] = "pending"
                                                THEN "pending"
                                                ELSE "free"]
    /\ currentPlayback' = IF currentPlayback = loopH[l] THEN Stale ELSE currentPlayback
    /\ loopH' = [loopH EXCEPT ![l] = 0]
    /\ loopPc' = [loopPc EXCEPT ![l] = "cooldown"]
    /\ UNCHANGED <<queueVars, itemVars, flagVars, sessVars, loopNext, txRunning, cmdVars,
                   histVars>>

\* index.ts 231, then 205-217: the cooldown is over.
CooldownDone(l) ==
    /\ loopPc[l] = "cooldown"
    /\ LoopTop(l)
    /\ UNCHANGED <<originalQueue, itemVars, flagVars, joined, loopH, handleVars, cmdVars,
                   stopAt, ignored, stopsInRow, observing>>

\* index.ts 450-455: leaveVoice has resolved inside the loop's cleanupStreamStatus.
CleanupLeft(l) ==
    /\ loopPc[l] = "cleanupLeave"
    /\ joined' = FALSE
    /\ loopPc' = [loopPc EXCEPT ![l] = "cleanupDelay"]
    /\ UNCHANGED <<queueVars, itemVars, flagVars, inVoice, speaking, loopNext, loopH,
                   handleVars, cmdVars, histVars>>

\* the exit of playQueue that also empties the template
CleanupDoneClearsTemplate(l) ==
    /\ loopPc[l] = "cleanupDelay"
    /\ isPlayingQueue' = FALSE
    /\ stopRequested' = FALSE
    /\ originalQueue' = <<>>
    /\ loopPc' = [loopPc EXCEPT ![l] = "idle"]
    /\ loopNext' = [loopNext EXCEPT ![l] = NoItem]
    /\ stopAt' = Recorded("stopAt", stopAt, [stopAt EXCEPT ![l] = "none"])
    /\ ignored' = Recorded("ignored", ignored, FALSE)
    /\ UNCHANGED <<videoQueue, itemVars, loopEnabled, sessVars, loopH, handleVars,
                   cmdVars, stopsInRow, observing, log>>

\* the return of playQueue without line 235
CleanupDoneKeepsStop(l) ==
    /\ loopPc[l] = "cleanupDelay"
    /\ isPlayingQueue' = FALSE
    /\ loopPc' = [loopPc EXCEPT ![l] = "idle"]
    /\ loopNext' = [loopNext EXCEPT ![l] = NoItem]
    /\ stopAt' = Recorded("stopAt", stopAt, [stopAt EXCEPT ![l] = "none"])
    /\ ignored' = Recorded("ignored", ignored, FALSE)
    /\ UNCHANGED <<queueVars, itemVars, loopEnabled, stopRequested, sessVars, loopH,
                   handleVars, cmdVars, stopsInRow, observing, log>>

\* index.ts 456-460, 234-235: the 500 ms are over; playQueue returns.
CleanupDone(l) ==
    /\ loopPc[l] = "cleanupDelay"
    /\ isPlayingQueue' = FALSE
    /\ stopRequested' = FALSE
    /\ loopPc' = [loopPc EXCEPT ![l] = "idle"]
    /\ loopNext' = [loopNext EXCEPT ![l] = NoItem]
    /\ stopAt' = Recorded("stopAt", stopAt, [stopAt EXCEPT ![l] = "none"])
    /\ ignored' = Recorded("ignored", ignored, FALSE)
    /\ UNCHANGED <<queueVars, itemVars, loopEnabled, sessVars, loopH, handleVars,
                   cmdVars, stopsInRow, observing, log>>

\* ---------------------------------------------------------------- the random command
\* index.ts 385-394: random, up to `await sendPlain(... Now Playing: Random video ...)`.
\* One handler of random at a time.
RandomCmd ==
    /\ rndPc = "idle"
    /\ rndPc' = "notify"
    /\ stopsInRow' = Recorded("stopsInRow", stopsInRow, 0)
    /\ UNCHANGED <<queueVars, itemVars, flagVars, sessVars, loopVars, handleVars,
                   startPending, stopPending, stopCooling, pqVars, rndH, stopAt, ignored, observing, log>>

\* index.ts 395-398: the reply is sent; joinVoice is called unless streamStatus.joined,
\* createStream otherwise.
RandomNotified ==
    /\ rndPc = "notify"
    /\ rndPc' = IF joined THEN "createStream" ELSE "joinVoice"
    /\ UNCHANGED <<queueVars, itemVars, flagVars, sessVars, loopVars, handleVars,
                   startPending, stopPending, stopCooling, pqVars, rndH, histVars>>

\* index.ts 396, 398: joinVoice resolves, createStream is called.
RandomJoined ==
    /\ rndPc = "joinVoice"
    /\ inVoice' = TRUE
    /\ rndPc' = "createStream"
    /\ UNCHANGED <<queueVars, itemVars, flagVars, joined, speaking, loopVars, handleVars,
                   startPending, stopPending, stopCooling, pqVars, rndH, histVars>>

\* index.ts 396, 398: joinVoice or createStream rejects; the handler ends.
RandomFail ==
    /\ rndPc \in {"joinVoice", "createStream"}
    /\ rndPc' = "idle"
    /\ UNCHANGED <<queueVars, itemVars, flagVars, sessVars, loopVars, handleVars,
                   startPending, stopPending, stopCooling, pqVars, rndH, histVars>>

\* index.ts 398-403: createStream resolves; streamStatus.joined = true; the playback
\* is handed to setImmediate.
RandomStreamCreated ==
    /\ rndPc = "createStream"
    /\ joined' = TRUE
    /\ rndPc' = "immediate"
    /\ UNCHANGED <<queueVars, itemVars, flagVars, inVoice, speaking, loopVars, handleVars,
                   startPending, stopPending, stopCooling, pqVars, rndH, histVars>>

\* index.ts 401-403 with 239-243: the callback of setImmediate calls
\* playVideoWithConnection, which runs up to `await sendPlain(... Now Playing ...)`.
RandomPlay ==
    /\ rndPc = "immediate"
    /\ speaking' = TRUE
    /\ rndPc' = "nowPlaying"
    /\ UNCHANGED <<queueVars, itemVars, flagVars, joined, inVoice, loopVars, handleVars,
                   startPending, stopPending, stopCooling, pqVars, rndH, histVars>>

\* index.ts 243-260 for the playback of random: the PCancelable is created and
\* assigned to currentPlayback, whatever currentPlayback was.
RandomNowPlayingSent ==
    /\ rndPc = "nowPlaying"
    /\ FreeHandles # {}
    /\ LET h == Min(FreeHandles) IN
       /\ hState' = [hState EXCEPT ![h] = "pending"]
       /\ txRunning' = [txRunning EXCEPT ![h] = TRUE]
       /\ currentPlayback' = h
       /\ rndH' = h
    /\ rndPc' = "transmit"
    /\ UNCHANGED <<queueVars, itemVars, flagVars, sessVars, loopVars,
                   startPending, stopPending, stopCooling, pqVars, histVars>>

\* index.ts 260-269 for the playback of random: its PCancelable has settled.
RandomSettled ==
    /\ rndPc = "transmit"
    /\ hState[rndH] # "pending"
    /\ speaking' = FALSE
    /\ rndPc' = "finished"
    /\ UNCHANGED <<queueVars, itemVars, flagVars, joined, inVoice, loopVars, handleVars,
                   startPending, stopPending, stopCooling, pqVars, rndH, histVars>>

\* index.ts 270 for the playback of random: currentPlayback = null, whatever
\* currentPlayback was.
RandomFinishedSent ==
    /\ rndPc = "finished"
    /\ currentPlayback' = 0
    /\ hState' = [hState EXCEPT ![rndH] = "free"]
    /\ rndH' = 0
    /\ rndPc' = "idle"
    /\ UNCHANGED <<queueVars, itemVars, flagVars, sessVars, loopVars, txRunning,
                   startPending, stopPending, stopCooling, pqVars, histVars>>

\* index.ts 394, 275: the reply of random rejects; the handler ends.
RandomNotifyRejected ==
    /\ rndPc = "notify"
    /\ rndPc' = "idle"
    /\ UNCHANGED <<queueVars, itemVars, flagVars, sessVars, loopVars, handleVars,
                   startPending, stopPending, stopCooling, pqVars, rndH, histVars>>

\* index.ts 243, 402: the notification "Now Playing" of the playback of random
\* rejects: no PCancelable, the indicators stay on, the error is logged.
RandomNowPlayingRejected ==
    /\ rndPc = "nowPlaying"
    /\ rndPc' = "idle"
    /\ UNCHANGED <<queueVars, itemVars, flagVars, sessVars, loopVars, handleVars,
                   startPending, stopPending, stopCooling, pqVars, rndH, histVars>>

\* index.ts 269, 402: the notification "Finished" of the playback of random rejects:
\* line 270 is not reached and currentPlayback is left as it is.
RandomFinishedRejected ==
    /\ rndPc = "finished"
    /\ hState' = [hState EXCEPT ![rndH] = "free"]
    /\ currentPlayback' = IF currentPlayback = rndH THEN Stale ELSE currentPlayback
    /\ rndH' = 0
    /\ rndPc' = "idle"
    /\ UNCHANGED <<queueVars, itemVars, flagVars, sessVars, loopVars, txRunning,
                   startPending, stopPending, stopCooling, pqVars, histVars>>

RandomSteps ==
    \/ RandomNotified
    \/ RandomNotifyRejected
    \/ RandomNowPlayingRejected
    \/ RandomFinishedRejected
    \/ RandomJoined
    \/ RandomFail
    \/ RandomStreamCreated
    \/ RandomPlay
    \/ RandomNowPlayingSent
    \/ RandomSettled
    \/ RandomFinishedSent

\* ---------------------------------------------------------------- processQueue variant
\* The variant of the bot in unnamed/part_000 (lines 497-907) has the same two queues
\* and loopEnabled, but instead of playQueue and isPlayingQueue it has processQueue,
\* which consumes ONE item and is called again by the playback it started, and the
\* flag streamStatus.playing.  A chain is one such sequence of calls.
pqOther == <<isPlayingQueue, stopRequested, loopVars, handleVars, stopPending, stopCooling,
             rndVars, histVars>>

\* What the add and loop handlers and the steps of a chain leave alone
pqFrame == <<pqOther, pqChannel, pqRndPc>>

IdleChains == {c \in Chains : pqPc[c] = "idle"}

\* part_000 744-773: processQueue() from its call up to its first await, as chain c.
\* The refill and the shift are synchronous; cleanupStreamStatus (886-894) has no
\* await of its own.
ProcessQueue(c) ==
    LET q == IF Len(videoQueue) = 0 /\ loopEnabled /\ Len(originalQueue) > 0
             THEN originalQueue ELSE videoQueue
    IN IF Len(q) > 0
       THEN /\ videoQueue' = Tail(q)
            /\ pqItem' = [pqItem EXCEPT ![c] = Head(q).id]
            /\ pqPc' = [pqPc EXCEPT ![c] =
                  IF Head(q).link = "remote" THEN "download"
                  ELSE IF ~joined THEN "joinVoice" ELSE "createStream"]
            /\ UNCHANGED <<originalQueue, sessVars, pqPlaying, pqCommand>>
       ELSE /\ inVoice' = FALSE
            /\ joined' = FALSE
            /\ pqPlaying' = FALSE
            /\ pqPc' = [pqPc EXCEPT ![c] = "idle"]
            /\ pqItem' = [pqItem EXCEPT ![c] = 0]
            /\ UNCHANGED <<queueVars, speaking, pqCommand>>

\* part_000 633-643: add <link>, up to `await sendSuccess`.
PqAdd(lnk, u) ==
    IF lnk = ""
    THEN UNCHANGED vars
    ELSE /\ nitems < MaxItems
         /\ startPending < MaxPending
         /\ LET item == [id |-> nitems + 1, uid |-> u, link |-> lnk] IN
            /\ videoQueue' = Append(videoQueue, item)
            /\ originalQueue' = Append(originalQueue, item)
         /\ nitems' = nitems + 1
         /\ startPending' = startPending + 1
         /\ UNCHANGED <<loopEnabled, sessVars, pqVars, pqFrame>>

\* part_000 644-646: the add handler resumes after sendSuccess and calls processQueue
\* unless streamStatus.playing.
PqAddResume ==
    /\ startPending > 0
    /\ ~pqPlaying => IdleChains # {}
    /\ startPending' = startPending - 1
    /\ IF ~pqPlaying
       THEN ProcessQueue(Min(IdleChains))
       ELSE UNCHANGED <<queueVars, sessVars, pqVars>>
    /\ UNCHANGED <<nitems, loopEnabled, pqFrame>>

\* part_000 674-686: loop on | loop off | anything else
PqLoopCmd(mode) ==
    /\ loopEnabled' = IF mode = "on" THEN TRUE ELSE IF mode = "off" THEN FALSE ELSE loopEnabled
    /\ UNCHANGED <<queueVars, nitems, sessVars, startPending, pqVars, pqFrame>>

\* part_000 752-755, 760-763: preDownloadVideo resolved; next.link = localPath is seen
\* through both queues, which hold the same object.
PqDownloadDone(c) ==
    /\ pqPc[c] = "download"
    /\ videoQueue' = SetLink(videoQueue, pqItem[c], "fetched")
    /\ originalQueue' = SetLink(originalQueue, pqItem[c], "fetched")
    /\ pqPc' = [pqPc EXCEPT ![c] = IF ~joined THEN "joinVoice" ELSE "createStream"]
    /\ UNCHANGED <<nitems, loopEnabled, sessVars, startPending, pqPlaying, pqItem, pqCommand,
                   pqFrame>>

\* part_000 756-759: preDownloadVideo rejected; `return processQueue()`.
PqDownloadFail(c) ==
    /\ pqPc[c] = "download"
    /\ ProcessQueue(c)
    /\ UNCHANGED <<nitems, loopEnabled, startPending, pqFrame>>

\* part_000 761-764: joinVoice resolved; createStream is called.
PqJoinVoiceDone(c) ==
    /\ pqPc[c] = "joinVoice"
    /\ inVoice' = TRUE
    /\ pqPc' = [pqPc EXCEPT ![c] = "createStream"]
    /\ UNCHANGED <<queueVars, nitems, loopEnabled, joined, speaking, startPending, pqPlaying,
                   pqItem, pqCommand, pqFrame>>

\* part_000 762, 764: joinVoice or createStream rejected; processQueue rejects and its
\* caller logs the error (645, 798).
PqAcquireFail(c) ==
    /\ pqPc[c] \in {"joinVoice", "createStream"}
    /\ pqPc' = [pqPc EXCEPT ![c] = "idle"]
    /\ pqItem' = [pqItem EXCEPT ![c] = 0]
    /\ UNCHANGED <<queueVars, nitems, loopEnabled, sessVars, startPending, pqPlaying,
                   pqCommand, pqFrame>>

\* part_000 764-770: createStream resolved; the flags are set and playVideo is left
\* to setImmediate.
PqCreateStreamDone(c) ==
    /\ pqPc[c] = "createStream"
    /\ joined' = TRUE
    /\ pqPlaying' = TRUE
    /\ pqPc' = [pqPc EXCEPT ![c] = "immediate"]
    /\ UNCHANGED <<queueVars, nitems, loopEnabled, inVoice, speaking, startPending, pqItem,
                   pqCommand, pqFrame>>

\* part_000 776-786: playVideo up to `await command`; streamLivestreamVideo runs.
PlayVideo(c) ==
    /\ pqPc[c] = "immediate"
    /\ speaking' = TRUE
    /\ pqCommand' = c
    /\ pqPc' = [pqPc EXCEPT ![c] = "transmit"]
    /\ UNCHANGED <<queueVars, nitems, loopEnabled, joined, inVoice, startPending, pqPlaying,
                   pqItem, pqFrame>>

\* part_000 787-800: the transmission ended or failed; the finally block, which
\* leaves the next call of processQueue to a timer of one second.
PqPlaybackSettled(c) ==
    /\ pqPc[c] = "transmit"
    /\ speaking' = FALSE
    /\ pqPc' = [pqPc EXCEPT ![c] = "timeout"]
    /\ UNCHANGED <<queueVars, nitems, loopEnabled, joined, inVoice, startPending, pqPlaying,
                   pqItem, pqCommand, pqFrame>>

\* part_000 797-799: the timer fires.
PqTimeout(c) ==
    /\ pqPc[c] = "timeout"
    /\ ProcessQueue(c)
    /\ UNCHANGED <<nitems, loopEnabled, startPending, pqFrame>>

\* part_000 643, 275: the reply of add rejects; the handler ends without calling
\* processQueue.
PqAddReplyRejected ==
    /\ startPending > 0
    /\ startPending' = startPending - 1
    /\ UNCHANGED <<queueVars, nitems, loopEnabled, sessVars, pqVars, pqOther>>

\* part_000 657-673: remove <uid>
PqRemove(u) ==
    LET index == FindIndex(videoQueue, u)
        originalIndex == FindIndex(originalQueue, u) IN
    /\ IF index = 0 \/ originalIndex = 0
       THEN UNCHANGED queueVars
       ELSE /\ videoQueue' = Splice(videoQueue, index)
            /\ originalQueue' = Splice(originalQueue, originalIndex)
    /\ UNCHANGED <<nitems, loopEnabled, sessVars, startPending, pqVars, pqOther>>

\* part_000 617-622, second test: the gateway reports that the account has joined a
\* voice channel (oldState.channelId empty, newState.channelId set).  The handler
\* looks at nothing else: the event may come from the program's own joinVoice,
\* before or after that call settles, or from another client of the account.
PqVoiceStateJoined ==
    /\ ~pqChannel
    /\ pqChannel' = TRUE
    /\ joined' = TRUE
    /\ UNCHANGED <<queueVars, nitems, loopEnabled, inVoice, speaking, startPending,
                   pqPlaying, pqPc, pqItem, pqCommand, pqRndPc, pqOther>>

\* part_000 609-617, first test: the gateway reports that the bot has left the voice
\* channel (after leaveVoice, or because it was disconnected).
PqVoiceStateLeft ==
    /\ pqChannel
    /\ pqChannel' = FALSE
    /\ joined' = FALSE
    /\ pqPlaying' = FALSE
    /\ UNCHANGED <<queueVars, nitems, loopEnabled, inVoice, speaking, startPending,
                   pqPc, pqItem, pqCommand, pqRndPc, pqOther>>

\* part_000 687-696: random with n files in the videos folder, up to
\* `await sendPlain(... Now Playing: Random video ...)`.  One handler at a time.
PqRandomCmd(n) ==
    IF n = 0
    THEN UNCHANGED vars
    ELSE /\ pqRndPc = "idle"
         /\ pqRndPc' = "notify"
         /\ UNCHANGED <<queueVars, nitems, loopEnabled, sessVars, startPending, pqPlaying,
                        pqPc, pqItem, pqCommand, pqChannel, pqOther>>

\* part_000 696-697: the reply is sent; joinVoice is called, whatever
\* streamStatus.joined is.
PqRandomNotified ==
    /\ pqRndPc = "notify"
    /\ pqRndPc' = "joinVoice"
    /\ UNCHANGED <<queueVars, nitems, loopEnabled, sessVars, startPending, pqPlaying,
                   pqPc, pqItem, pqCommand, pqChannel, pqOther>>

\* part_000 697-698: joinVoice resolves; createStream is called.
PqRandomJoined ==
    /\ pqRndPc = "joinVoice"
    /\ inVoice' = TRUE
    /\ pqRndPc' = "createStream"
    /\ UNCHANGED <<queueVars, nitems, loopEnabled, joined, speaking, startPending,
                   pqPlaying, pqPc, pqItem, pqCommand, pqChannel, pqOther>>

\* part_000 696-698: the reply, joinVoice or createStream rejects; the handler ends.
PqRandomFail ==
    /\ pqRndPc \in {"notify", "joinVoice", "createStream"}
    /\ pqRndPc' = "idle"
    /\ UNCHANGED <<queueVars, nitems, loopEnabled, sessVars, startPending, pqPlaying,
                   pqPc, pqItem, pqCommand, pqChannel, pqOther>>

\* part_000 698-704: createStream resolves; the flags are set and playVideo is left
\* to setImmediate: a chain that starts with the playback of the random file.
PqRandomStreamCreated ==
    /\ pqRndPc = "createStream"
    /\ IdleChains # {}
    /\ joined' = TRUE
    /\ pqPlaying' = TRUE
    /\ pqPc' = [pqPc EXCEPT ![Min(IdleChains)] = "immediate"]
    /\ pqRndPc' = "idle"
    /\ UNCHANGED <<queueVars, nitems, loopEnabled, inVoice, speaking, startPending,
                   pqItem, pqCommand, pqChannel, pqOther>>

PqRandomSteps ==
    \/ PqRandomNotified
    \/ PqRandomJoined
    \/ PqRandomFail
    \/ PqRandomStreamCreated

PqSteps ==
    \E c \in Chains :
        \/ PqDownloadDone(c)
        \/ PqDownloadFail(c)
        \/ PqJoinVoiceDone(c)
        \/ PqAcquireFail(c)
        \/ PqCreateStreamDone(c)
        \/ PlayVideo(c)
        \/ PqPlaybackSettled(c)
        \/ PqTimeout(c)

\* ---------------------------------------------------------------- specification
\* The uids k calls of generateUID in a row return (index.ts 326)
BatchUIDs(k) ==
    LET used == LiveUids IN
    {us \in [1..k -> UIDs] :
        \A j \in 1..k : us[j] \in GenerateUID(used \cup {us[i] : i \in 1..(j - 1)})}

\* The sizes of batch the bound on item objects leaves room for
BatchSizes(max) ==
    {k \in 0..MaxBatch : nitems + k <= max /\ (k > 0 => startPending < MaxPending)}

QueueCommands ==
    \/ AddResume
    \/ AddReplyRejected
    \/ \E u \in UIDs : Remove(u)
    \/ \E mode \in {"on", "off", ""} : LoopCmd(mode)
    \/ Stop
    \/ StopCleanup

Commands ==
    \/ \E lnk \in Links \cup {""}, u \in GenerateUID(LiveUids) : Add(lnk, u)
    \/ \E k \in BatchSizes(MaxItems) :
          \E lnks \in [1..k -> Links], us \in BatchUIDs(k) : Batch(lnks, us)
    \/ QueueCommands

LoopSteps ==
    \E l \in Loops :
        \/ JoinVoiceDone(l)
        \/ AcquireFail(l)
        \/ CreateStreamDone(l)
        \/ PreDownloadDone(l)
        \/ PreDownloadFail(l)
        \/ NowPlayingSent(l)
        \/ NowPlayingRejected(l)
        \/ PlaybackSettled(l)
        \/ FinishedSent(l)
        \/ FinishedRejected(l)
        \/ CooldownDone(l)
        \/ CleanupLeft(l)
        \/ CleanupDone(l)

Transmissions == \E h \in Handles : TransmitEnd(h) \/ TransmitError(h)

\* The queue commands (add, batch, remove, loop, stop), the loop and the transmissions
Next == Commands \/ LoopSteps \/ Transmissions

Spec == Init /\ [][Next]_vars

\* The same program with the history of the stop commands recorded: where each
\* activation was when the first stop of its run arrived
InitStopAt == InitProgram /\ observing = {"stopAt"}

SpecStopAt == InitStopAt /\ [][Next]_vars

\* ... with the number of stop commands in a row recorded as well
InitStops == InitProgram /\ observing = {"stopAt", "stopsInRow"}

SpecStops == InitStops /\ [][Next]_vars

\* ... and with the ignored calls of playQueue recorded
InitIgnored == InitProgram /\ observing = {"ignored"}

SpecIgnored == InitIgnored /\ [][Next]_vars

\* ... and with the retries of a pre-download noted, so that the step which shifts
\* the item it has just left (the refill after the failed pre-download of the only
\* item of the template) changes the state
InitRetries == InitProgram /\ observing = {"retries"}

SpecRetries == InitRetries /\ [][Next]_vars

\* The same with room for three item objects
AddWide(lnk, u) == AddItem(lnk, u, MaxItemsWide)

BatchWide(lnks, us) == BatchItems(lnks, us, MaxItemsWide)

NextWide ==
    \/ \E lnk \in Links \cup {""}, u \in GenerateUID(LiveUids) : AddWide(lnk, u)
    \/ \E k \in BatchSizes(MaxItemsWide) :
          \E lnks \in [1..k -> Links], us \in BatchUIDs(k) : BatchWide(lnks, us)
    \/ QueueCommands
    \/ LoopSteps
    \/ Transmissions

SpecWide == Init /\ [][NextWide]_vars

\* The queue with the random command: one add, stop, random, the loop, the playback
\* of random and the transmissions
NextRandom ==
    \/ \E lnk \in Links, u \in GenerateUID(LiveUids) : nitems = 0 /\ Add(lnk, u)
    \/ AddResume
    \/ Stop
    \/ StopCleanup
    \/ RandomCmd
    \/ RandomSteps
    \/ LoopSteps
    \/ Transmissions

SpecRandom == Init /\ [][NextRandom]_vars

\* The processQueue variant: its commands (add, remove, loop, random), the events of
\* the bot's voice state and the steps of its chains.
NextProcessQueue ==
    \/ \E lnk \in Links \cup {""}, u \in GenerateUID(LiveUids) : PqAdd(lnk, u)
    \/ PqAddResume
    \/ PqAddReplyRejected
    \/ \E u \in UIDs : PqRemove(u)
    \/ \E mode \in {"on", "off", ""} : PqLoopCmd(mode)
    \/ \E n \in {0, 1} : PqRandomCmd(n)
    \/ PqRandomSteps
    \/ PqVoiceStateJoined
    \/ PqVoiceStateLeft
    \/ PqSteps

SpecProcessQueue == Init /\ [][NextProcessQueue]_vars

\* The replay scenario: two items are added, looping is switched on, nothing is
\* removed or stopped, and the observer records what the loop pops and plays.
InitReplay == InitProgram /\ observing = Histories

NextReplay ==
    \/ \E lnk \in Links, u \in GenerateUID(LiveUids) : Len(originalQueue) < 2 /\ Add(lnk, u)
    \/ AddResume
    \/ LoopCmd("on")
    \/ LoopSteps
    \/ Transmissions

SpecReplay == InitReplay /\ [][NextReplay]_vars

\* The scenario of one batch: a single batch command on the fresh program, looping
\* off, no other command, and every external call succeeds and settles.
NextOneBatch ==
    \/ \E k \in 1..MaxBatch : \E lnks \in [1..k -> Links], us \in BatchUIDs(k) :
          originalQueue = <<>> /\ Batch(lnks, us)
    \/ AddResume
    \/ \E l \in Loops :
          \/ JoinVoiceDone(l)
          \/ CreateStreamDone(l)
          \/ PreDownloadDone(l)
          \/ NowPlayingSent(l)
          \/ PlaybackSettled(l)
          \/ FinishedSent(l)
          \/ CooldownDone(l)
          \/ CleanupLeft(l)
          \/ CleanupDone(l)
    \/ \E h \in Handles : TransmitEnd(h)

SpecOneBatch == InitReplay /\ [][NextOneBatch]_vars /\ WF_vars(NextOneBatch)

\* The program when session acquisition always succeeds and every external call
\* settles: the suspended handlers, the loop and the transmissions go on (weak
\* fairness of each); commands come when the operator sends them.  A call that
\* settles may fail every time: the retries of a pre-download are noted, so that
\* the activation which retries the only item of the template for ever (index.ts
\* 219-222, 206-217) takes a step each time and is a fair behaviour.
LoopStepSettling(l) ==
    \/ JoinVoiceDone(l)
    \/ CreateStreamDone(l)
    \/ PreDownloadDone(l)
    \/ PreDownloadFail(l)
    \/ NowPlayingSent(l)
    \/ NowPlayingRejected(l)
    \/ PlaybackSettled(l)
    \/ FinishedSent(l)
    \/ FinishedRejected(l)
    \/ CooldownDone(l)
    \/ CleanupLeft(l)
    \/ CleanupDone(l)

NextSettling ==
    \/ Commands
    \/ \E l \in Loops : LoopStepSettling(l)
    \/ Transmissions

FairSettling ==
    /\ WF_vars(AddResume)
    /\ WF_vars(StopCleanup)
    /\ \A l \in Loops : WF_vars(LoopStepSettling(l))
    /\ \A h \in Handles : WF_vars(TransmitEnd(h) \/ TransmitError(h))

SpecSettling == InitRetries /\ [][NextSettling]_vars /\ FairSettling

\* The same when a transmission may go on for ever: session calls, pre-downloads,
\* notifications and timers settle, streamLivestreamVideo need not.
FairStalling ==
    /\ WF_vars(AddResume)
    /\ WF_vars(StopCleanup)
    /\ \A l \in Loops : WF_vars(LoopStepSettling(l))

InitStalling == InitProgram /\ observing = {"stopAt", "retries"}

SpecStalling == InitStalling /\ [][NextSettling]_vars /\ FairStalling

\* One batch and then no command at all: looping stays off, no stop, no further
\* enqueue; the session is obtained and every later call settles, by success or by
\* failure.  The observer is on.
NextExhaust ==
    \/ \E k \in 1..MaxBatch : \E lnks \in [1..k -> Links], us \in BatchUIDs(k) :
          originalQueue = <<>> /\ Batch(lnks, us)
    \/ AddResume
    \/ \E l \in Loops : LoopStepSettling(l)
    \/ \E h \in Handles : TransmitEnd(h)
    \/ \E h \in Handles : TransmitError(h)

FairExhaust ==
    /\ WF_vars(AddResume)
    /\ \A l \in Loops : WF_vars(LoopStepSettling(l))
    /\ \A h \in Handles : WF_vars(TransmitEnd(h) \/ TransmitError(h))

SpecExhaust == InitReplay /\ [][NextExhaust]_vars /\ FairExhaust

\* One batch and one stop, at any moment; the session is obtained and every later
\* call settles.  The observer is on.
NextNotices ==
    \/ \E k \in 1..MaxBatch : \E lnks \in [1..k -> Links], us \in BatchUIDs(k) :
          nitems = 0 /\ Batch(lnks, us)
    \/ AddResume
    \/ (stopsInRow = 0 /\ Stop)
    \/ StopCleanup
    \/ StopCleanupDone
    \/ \E l \in Loops : LoopStepSettling(l)
    \/ \E h \in Handles : TransmitEnd(h)
    \/ \E h \in Handles : TransmitError(h)

SpecNotices == InitReplay /\ [][NextNotices]_vars

\* The remove scenario: add, batch and a single remove command, the loop with
\* acquisition succeeding and the transmissions ending, with the observer recording
\* the replies to remove.
Removes == SelectSeq(log, LAMBDA e : e.kind = "remove")

NextOneRemove ==
    \/ \E lnk \in Links, u \in GenerateUID(LiveUids) : Add(lnk, u)
    \/ \E k \in BatchSizes(MaxItems) \ {0} :
          \E lnks \in [1..k -> Links], us \in BatchUIDs(k) : Batch(lnks, us)
    \/ AddResume
    \/ \E u \in UIDs : Removes = <<>> /\ Remove(u)
    \/ \E l \in Loops : LoopStepSettling(l)
    \/ \E h \in Handles : TransmitEnd(h)

InitReplies == InitProgram /\ observing = {"replies"}

SpecOneRemove == InitReplies /\ [][NextOneRemove]_vars

TypeOK ==
    /\ Ids(videoQueue) \subseteq Items
    /\ Ids(originalQueue) \subseteq Items
    /\ currentPlayback \in Handles \cup {0, Stale}
    /\ startPending \in 0..MaxPending
    /\ stopPending \in 0..MaxPending
    /\ stopCooling \in 0..MaxPending
    /\ rndH \in Handles \cup {0}
    /\ pqPlaying \in BOOLEAN
    /\ pqCommand \in Chains \cup {0}
    /\ pqChannel \in BOOLEAN
    /\ pqRndPc \in {"idle", "notify", "joinVoice", "createStream"}
    /\ observing \subseteq Histories

\* ---------------------------------------------------------------- properties
programVars == <<queueVars, itemVars, flagVars, sessVars, loopVars, handleVars>>

\* C1: single flight.  At most one activation of playQueue is live at any instant, and
\* a call of playQueue made while isPlayingQueue is true (the resumption of an add or
\* batch handler) acquires no session, pops nothing and changes no flag: it leaves
\* every program variable as it was.
C1_SingleFlight ==
    [][/\ Cardinality(ActiveLoops') <= 1
       /\ (isPlayingQueue /\ startPending' < startPending) => UNCHANGED programVars]_vars

\* A call was ignored while one activation was running
C1_Witness == ignored /\ Cardinality(ActiveLoops) = 1

\* C2: at most one PlaybackHandle (a PCancelable that has not settled) is live in every
\* state the queue commands and the loop can reach.
C2_OneLiveHandle == Cardinality(LiveHandles) <= 1

\* A handle is live while the transmission of an earlier, cancelled handle still runs
C2_Witness ==
    \E h1, h2 \in Handles : h1 # h2 /\ hState[h1] = "pending" /\ txRunning[h2]

\* p is the tail end of t: the same objects in the same order
IsSuffix(p, t) ==
    /\ Len(p) <= Len(t)
    /\ \A k \in 1..Len(p) : p[k] = t[Len(t) - Len(p) + k]

\* C3: in every reachable state videoQueue is a suffix of originalQueue in the same
\* relative order, and every uid in videoQueue occurs in originalQueue.
C3_PendingSuffixOfTemplate ==
    /\ IsSuffix(videoQueue, originalQueue)
    /\ \A p \in Range(videoQueue) : \E t \in Range(originalQueue) : t.uid = p.uid

\* C4: once a stop command has arrived during the run of an activation, that
\* activation creates no PlaybackHandle (and so starts no transmission) before it
\* exits, wherever it was suspended when the stop arrived.
C4_NoHandleAfterStop ==
    [][\A l \in Loops : stopAt[l] # "none" => ~(loopH[l] = 0 /\ loopH'[l] # 0)]_vars

\* The suspension points of the session acquisition (index.ts 194-198)
Acquiring == {"joinVoice", "createStreamJoined", "createStream"}

\* C5: one item is enqueued and stop arrives before its playback begins (here: while
\* the activation is still acquiring); then the activation makes no further session
\* call, holds no session and starts no transmission.
C5_EarlyStopNoSession ==
    \A l \in Loops :
        (nitems = 1 /\ stopAt[l] \in Acquiring) =>
            /\ ~inVoice
            /\ loopH[l] = 0
            /\ loopPc[l] \in Acquiring => loopPc[l] = stopAt[l]

\* A step that is the synchronous part of a stop command
StopStep == stopPending' = stopPending + 1

\* What the synchronous part of a stop command leaves behind
AfterStop ==
    /\ stopRequested
    /\ videoQueue = <<>>
    /\ originalQueue = <<>>
    /\ ~inVoice
    /\ currentPlayback \in Handles => hState[currentPlayback] # "pending"

Idle == ~isPlayingQueue /\ ActiveLoops = {} /\ LiveHandles = {} /\ ~inVoice

\* C6: stop is idempotent.  A stop leaves the state AfterStop; a stop issued in that
\* state (the second of two in a row) changes no program variable; a stop issued while
\* the orchestrator is Idle with both queues empty leaves it Idle with both queues
\* empty; and when the activation that saw the stop returns from its cleanup, the
\* orchestrator is Idle.
C6_StopIdempotent ==
    [][/\ StopStep => AfterStop'
       /\ (StopStep /\ AfterStop) => UNCHANGED programVars
       /\ (StopStep /\ Idle /\ videoQueue = <<>> /\ originalQueue = <<>>) =>
              (Idle' /\ videoQueue' = <<>> /\ originalQueue' = <<>>)
       /\ \A l \in Loops :
              (stopAt[l] # "none" /\ loopPc[l] = "cleanupDelay" /\ loopPc'[l] = "idle")
                  => Idle']_vars

\* Two stop commands in a row have run while an activation was live
C6_Witness ==
    stopsInRow = 2 /\ AfterStop /\ \E l \in Loops : stopAt[l] \notin {"none", loopPc[l]}

\* C7: the synchronous part of stop sets the stop flag, cancels the current
\* PlaybackHandle when it is pending, empties videoQueue and originalQueue and
\* releases the session (leaveVoice), whatever the loop was doing.
C7_StopEffect ==
    [][StopStep =>
          /\ stopRequested'
          /\ (currentPlayback \in Handles /\ hState[currentPlayback] = "pending")
                 => hState'[currentPlayback] = "canceled"
          /\ videoQueue' = <<>>
          /\ originalQueue' = <<>>
          /\ ~inVoice'
          /\ UNCHANGED <<loopVars, currentPlayback, isPlayingQueue, loopEnabled>>]_vars

\* A stop has cancelled the handle the loop awaits, with items queued before it
C7_Witness ==
    \E l \in Loops :
        /\ stopAt[l] = "transmit"
        /\ loopPc[l] = "transmit"
        /\ hState[loopH[l]] = "canceled"
        /\ loopNext[l].id = 1
        /\ nitems = 2
        /\ videoQueue = <<>>
        /\ originalQueue = <<>>

\* The pops and the plays the observer has recorded, in order
Pops == SelectSeq(log, LAMBDA e : e.kind = "pop")

\* C8: loop replay.  With looping on and template [A, B], once A and B have been
\* popped one after the other, the next two pops are A and then B again; and a pop of
\* an item that was played before carries the link it was played with (the local path
\* its pre-download wrote), never its remote reference again.
C8_LoopReplay ==
    /\ \A k \in 1..Len(Pops) :
           (k >= 3 /\ Pops[k - 2].id = 1 /\ Pops[k - 1].id = 2) =>
               /\ Pops[k].id = 1
               /\ k < Len(Pops) => Pops[k + 1].id = 2
    /\ \A i, j \in 1..Len(log) :
           (i < j /\ log[i].kind = "play" /\ log[j].kind = "pop" /\ log[i].id = log[j].id)
               => log[j].link = log[i].link

\* A and B, both remote at first, were popped and played, then popped again as fetched
C8_Witness ==
    /\ Len(Pops) >= 4
    /\ Pops[1] = [kind |-> "pop", id |-> 1, link |-> "remote"]
    /\ Pops[2] = [kind |-> "pop", id |-> 2, link |-> "remote"]
    /\ Pops[3] = [kind |-> "pop", id |-> 1, link |-> "fetched"]
    /\ Pops[4] = [kind |-> "pop", id |-> 2, link |-> "fetched"]

\* C9: skip law.  When the pre-download of the popped item A fails, A is not played
\* (no playback call, no handle), the template is left as it is (A stays in it unless
\* a remove takes it out), and unless a stop was requested the loop goes on: to the
\* next pending item B, or to the head of the refilled template when looping is on,
\* with the session neither released nor re-acquired.
C9_SkipLaw ==
    [][\A l \in Loops : PreDownloadFail(l) =>
          /\ loopPc'[l] = "nowPlaying" => loopNext'[l].id # loopNext[l].id
          /\ UNCHANGED <<handleVars, loopH, originalQueue>>
          /\ (~stopRequested /\ videoQueue # <<>>) =>
                 /\ loopNext'[l] = Head(videoQueue)
                 /\ videoQueue' = Tail(videoQueue)
                 /\ loopPc'[l] \in {"download", "nowPlaying"}
                 /\ UNCHANGED <<inVoice, joined>>
          /\ (~stopRequested /\ videoQueue = <<>> /\ loopEnabled /\ originalQueue # <<>>) =>
                 /\ loopNext'[l] = Head(originalQueue)
                 /\ loopPc'[l] \in {"download", "nowPlaying"}
                 /\ UNCHANGED <<inVoice, joined>>]_vars

\* A (remote) was popped and not fetched, it is still in the template, and the loop
\* is at B with the session held
C9_Witness ==
    \E l \in Loops :
        /\ loopNext[l].id = 2
        /\ loopPc[l] \in {"download", "nowPlaying"}
        /\ inVoice
        /\ ~stopRequested
        /\ Len(originalQueue) = 2
        /\ originalQueue[1].id = 1
        /\ originalQueue[1].link = "remote"
        /\ videoQueue = <<>>

\* C10: when a stop has been requested and the pre-download awaited by an activation
\* ends, the activation leaves the loop: playVideoWithConnection is not called (the
\* speaking flag is untouched) and no handle is created.
C10_StopDuringDownload ==
    [][\A l \in Loops :
          (loopPc[l] = "download" /\ stopRequested /\ loopPc'[l] # "download") =>
              /\ loopPc'[l] = "cleanupLeave"
              /\ UNCHANGED <<speaking, handleVars, loopH>>]_vars

\* The stop arrived during the pre-download, which then succeeded; the loop is leaving
C10_Witness ==
    \E l \in Loops :
        /\ stopAt[l] = "download"
        /\ loopPc[l] = "cleanupLeave"
        /\ loopNext[l].link = "fetched"
        /\ loopH[l] = 0

IsPrefix(p, t) == Len(p) <= Len(t) /\ \A k \in 1..Len(p) : p[k] = t[k]

\* The batch of the scenario: a local item, then a remote one
LocalThenRemote ==
    /\ Len(originalQueue) = 2
    /\ originalQueue[1].link = "local"
    /\ originalQueue[2].link \in {"remote", "fetched"}

\* What the observer of that scenario must have seen when the run is over
LocalThenRemoteRun ==
    << [kind |-> "acquire",  id |-> 0, link |-> "none"],
       [kind |-> "pop",      id |-> 1, link |-> "local"],
       [kind |-> "play",     id |-> 1, link |-> "local"],
       [kind |-> "transmit", id |-> 1, link |-> "local"],
       [kind |-> "pop",      id |-> 2, link |-> "remote"],
       [kind |-> "play",     id |-> 2, link |-> "fetched"],
       [kind |-> "transmit", id |-> 2, link |-> "fetched"],
       [kind |-> "release",  id |-> 0, link |-> "none"] >>

\* The run of the scenario is over
LocalThenRemoteDone ==
    /\ log = LocalThenRemoteRun
    /\ Idle
    /\ videoQueue = <<>>
    /\ ~joined
    /\ ~stopRequested

\* C11: with looping off and the queue [local item, remote item], every call
\* succeeding and no stop, the session is acquired once, the local item is
\* transmitted, then the remote item is pre-downloaded and its local path is
\* transmitted, then the session is released; and the run does end, Idle with
\* videoQueue empty.
C11_LocalThenRemote ==
    /\ [](LocalThenRemote => IsPrefix(log, LocalThenRemoteRun))
    /\ (LocalThenRemote ~> LocalThenRemoteDone)

C11_Witness == LocalThenRemote /\ LocalThenRemoteDone

\* The uid is absent from videoQueue or absent from originalQueue
AbsentUid(u) == FindIndex(videoQueue, u) = 0 \/ FindIndex(originalQueue, u) = 0

\* C12: a remove whose uid is absent from videoQueue or from originalQueue replies
\* not-found and leaves both queues as they were; so an item already popped, which
\* is in originalQueue only, cannot be removed.
C12_RemoveAbsent ==
    [][\A u \in UIDs :
          (Remove(u) /\ AbsentUid(u)) =>
              /\ UNCHANGED queueVars
              /\ log' = Observe(<<RemoveEvent(u, "error")>>)]_vars

\* The item being played is in originalQueue only, another item is pending, and a
\* remove of its uid has just been answered with not-found
C12_Witness ==
    \E l \in Loops :
        /\ loopPc[l] = "transmit"
        /\ loopNext[l] \in Range(originalQueue)
        /\ FindIndex(videoQueue, loopNext[l].uid) = 0
        /\ videoQueue # <<>>
        /\ Removes = <<RemoveEvent(loopNext[l].uid, "error")>>
        /\ log[Len(log)] = RemoveEvent(loopNext[l].uid, "error")

\* A step that is the synchronous part of an add or batch command that has a link
EnqueueStep == startPending' = startPending + 1

\* C13: the synchronous part of add or batch appends its items, in input order and as
\* one block, to the end of videoQueue and of originalQueue: the same objects (same
\* uid and link) in both, everything before them untouched, and nothing else of the
\* program changed.  It has no failing branch.
C13_EnqueueAppends ==
    [][EnqueueStep =>
          LET k == nitems' - nitems
              new == SubSeq(videoQueue', Len(videoQueue) + 1, Len(videoQueue')) IN
          /\ k >= 1
          /\ Len(new) = k
          /\ videoQueue' = videoQueue \o new
          /\ originalQueue' = originalQueue \o new
          /\ \A j \in 1..k : new[j].id = nitems + j /\ new[j].link \in Links
          /\ UNCHANGED <<flagVars, sessVars, loopVars, handleVars>>]_vars

\* An enqueue handler is suspended after its pushes: the two items stand at the end
\* of both queues in the order of their creation, with different links
C13_Witness ==
    /\ startPending > 0
    /\ ActiveLoops = {}
    /\ Len(videoQueue) = 2
    /\ videoQueue = originalQueue
    /\ videoQueue[1] = [id |-> 1, uid |-> 1, link |-> "remote"]
    /\ videoQueue[2] = [id |-> 2, uid |-> 2, link |-> "local"]

\* C14: when joinVoice or createStream rejects, the activation returns without
\* having popped anything: both queues and every handle are as they were, no
\* transmission runs for it, and isPlayingQueue is false; and whenever isPlayingQueue
\* is false the resumption of an add or batch handler (its reply delivered) starts a
\* new activation.
C14_AcquireFailure ==
    [][/\ \A l \in Loops :
              (loopPc[l] \in Acquiring /\ loopPc'[l] = "idle") =>
                  /\ UNCHANGED <<queueVars, handleVars>>
                  /\ loopNext'[l] = NoItem
                  /\ loopH'[l] = 0
                  /\ ~isPlayingQueue'
       /\ (startPending' < startPending /\ ~isPlayingQueue /\ AddResume) =>
              /\ isPlayingQueue'
              /\ \E l \in Loops : loopPc[l] = "idle" /\ loopPc'[l] \in Acquiring]_vars

\* A new activation is acquiring with the items still queued, after an activation
\* whose joinVoice succeeded and whose createStream failed (the connection it left
\* is still there)
C14_Witness ==
    \E l \in Loops :
        /\ loopPc[l] = "joinVoice"
        /\ inVoice
        /\ isPlayingQueue
        /\ videoQueue # <<>>
        /\ videoQueue = originalQueue
        /\ LiveHandles = {}

\* The last thing recorded is that the transmission of the item activation l is
\* playing ended with an error
SkipSeen(l) ==
    /\ loopPc[l] \in {"transmit", "finished", "cooldown"}
    /\ log # <<>>
    /\ Len(log) < MaxLog
    /\ log[Len(log)] = Event("skip", loopNext[l])

\* C15: an error of streamLivestreamVideo during a transmission settles the pending
\* handle as skipped, and the activation goes on as after a normal end: finally
\* block, cooldown, then, unless the queue is exhausted, the next item of the queue
\* (or of the refilled template); none of these steps releases or re-acquires the
\* session.
C15_TransmitErrorSkips ==
    [][/\ (Len(log') > Len(log) /\ log'[Len(log')].kind = "skip") =>
              \E h \in Handles :
                  /\ hState[h] = "pending"
                  /\ hState'[h] = "skipped"
                  /\ UNCHANGED <<loopVars, sessVars, queueVars>>
       /\ \A l \in Loops :
              (SkipSeen(l) /\ loopPc'[l] # loopPc[l]) =>
                  /\ loopPc[l] = "transmit" =>
                         (loopPc'[l] = "finished" /\ UNCHANGED <<inVoice, joined>>)
                  /\ loopPc[l] = "finished" =>
                         (loopPc'[l] = "cooldown" /\ UNCHANGED <<inVoice, joined>>)
                  /\ (loopPc[l] = "cooldown" /\ ~stopRequested /\ Refilled # <<>>) =>
                         /\ loopNext'[l] = Head(Refilled)
                         /\ loopPc'[l] \in {"download", "nowPlaying"}
                         /\ UNCHANGED <<inVoice, joined>>]_vars

\* The transmission of item 1 ended with an error and the loop has popped item 2 next,
\* the session still held
C15_Witness ==
    \E l \in Loops, i \in 1..MaxLog :
        /\ i < Len(log)
        /\ log[i].kind = "skip"
        /\ log[i].id = 1
        /\ log[i + 1].kind = "pop"
        /\ log[i + 1].id = 2
        /\ loopNext[l].id = 2
        /\ loopPc[l] \in {"download", "nowPlaying"}
        /\ inVoice

\* C16: an activation that leaves the while loop calls leaveVoice, and when it
\* returns from its cleanup the session indicators are reset (joined false, no voice
\* connection), isPlayingQueue is false and the stop flag is clear.  An add or batch
\* handler that resumes (its reply delivered) while isPlayingQueue is false starts an
\* activation with the stop flag cleared, so a stop flag seen by a live activation
\* always comes from a stop issued during its own run.
C16_ExitResets ==
    [][/\ \A l \in Loops :
              /\ (loopPc[l] # "cleanupLeave" /\ loopPc'[l] = "cleanupLeave") => ~inVoice'
              /\ (loopPc[l] = "cleanupDelay" /\ loopPc'[l] = "idle") =>
                     /\ ~isPlayingQueue'
                     /\ ~stopRequested'
                     /\ ~joined'
                     /\ ~inVoice'
                     /\ ActiveLoops' = {}
              /\ (loopPc'[l] # "idle" /\ stopRequested') => stopAt'[l] # "none"
       /\ (startPending' < startPending /\ ~isPlayingQueue /\ AddResume) =>
              /\ ~stopRequested'
              /\ ActiveLoops' # {}]_vars

\* A stop was issued while nothing ran (its handler is still suspended), then an add
\* started a run, which has popped its item with the stop flag clear
C16_Witness ==
    \E l \in Loops :
        /\ stopPending > 0
        /\ stopAt[l] = "none"
        /\ loopPc[l] \in {"download", "nowPlaying"}
        /\ loopNext[l].id = 1
        /\ nitems = 1
        /\ ~stopRequested

\* C17: every item in videoQueue eventually leaves it (popped by the loop, removed by
\* id or cleared by a stop), whenever it was enqueued, when acquisition succeeds and
\* the external calls settle.
C17_EveryItemLeavesPending ==
    \A i \in 1..MaxItems : (i \in Ids(videoQueue)) ~> (i \notin Ids(videoQueue))

\* C18: while an activation is live the session is touched by it alone: a step that
\* drops the voice connection is the activation entering its cleanup, and a step that
\* sets up the connection is the activation's own acquisition.
C18_SessionOwnedByLoop ==
    [][(ActiveLoops # {} /\ inVoice' # inVoice) =>
          \E l \in Loops :
              \/ loopPc[l] = "joinVoice" /\ loopPc'[l] = "createStreamJoined"
              \/ loopPc[l] # "cleanupLeave" /\ loopPc'[l] = "cleanupLeave"]_vars

\* C19: a cancelled handle is not settled, and the activation does not leave the
\* await of line 260, while the transmission the handle stands for is still running.
C19_CancelWaitsForTransmission ==
    [][\A l \in Loops :
          (loopPc[l] = "transmit" /\ loopPc'[l] # "transmit") => ~txRunning[loopH[l]]]_vars

\* The calls of streamLivestreamVideo in progress
Transmitting == {h \in Handles : txRunning[h]}

\* C20: at most one call of streamLivestreamVideo is in progress at any instant.
C20_OneTransmission == Cardinality(Transmitting) <= 1

\* C21: once a stop has arrived during the run of an activation, the activation
\* eventually returns and leaves the orchestrator Idle, whether or not the
\* transmission ever ends.  (FreeHandles # {}: a PCancelable object is left within
\* the bound, so the activation is not held back by the bound.)
C21_StopEndsRun ==
    \A l \in Loops :
        (stopAt[l] # "none" /\ FreeHandles # {}) ~> (loopPc[l] = "idle" /\ Idle)

\* How many times the loop has shifted item i out of videoQueue
PopCount(i) == Cardinality({k \in 1..Len(Pops) : Pops[k].id = i})

\* The run of the scenario has started and has returned
RunOver == log # <<>> /\ ~isPlayingQueue

\* C22: with looping off, no stop and no enqueue after the start, a started run
\* ends: the orchestrator is Idle again with videoQueue empty and the session
\* released, and by then every item that was pending at the start has been
\* shifted exactly once (never twice on the way).
C22_RunExhaustsQueue ==
    /\ (isPlayingQueue ~> (Idle /\ videoQueue = <<>> /\ ~joined))
    /\ [](\A i \in Ids(originalQueue) : PopCount(i) <= 1)
    /\ [](RunOver => /\ Idle /\ videoQueue = <<>> /\ ~joined
                     /\ \A i \in Ids(originalQueue) : PopCount(i) = 1)

\* a run over two items has returned, the session released
C22_Witness ==
    /\ RunOver
    /\ Len(originalQueue) = 2
    /\ Len(Pops) = 2
    /\ \E k \in 1..Len(log) : log[k].kind = "release"

\* A step of activation l that reaches the test of the while loop (line 205)
LoopTopStep(l) == CreateStreamDone(l) \/ PreDownloadFail(l) \/ CooldownDone(l)

\* Activation l is inside its while loop
InLoop(l) == loopPc[l] \in {"download", "nowPlaying", "transmit", "finished", "cooldown"}

\* C23: at the top of an iteration with videoQueue empty and no stop, the loop
\* refills videoQueue from originalQueue (and shifts its head, originalQueue left as
\* it is) exactly when loopEnabled holds and originalQueue is not empty, and leaves
\* otherwise; so an activation leaves its loop only with the stop flag set,
\* looping off or originalQueue empty.
C23_RefillOrExit ==
    [][\A l \in Loops :
          /\ (~stopRequested /\ videoQueue = <<>> /\ LoopTopStep(l)) =>
                IF loopEnabled /\ originalQueue # <<>>
                THEN /\ loopPc'[l] \in {"download", "nowPlaying"}
                     /\ loopNext'[l] = Head(originalQueue)
                     /\ videoQueue' = Tail(originalQueue)
                     /\ originalQueue' = originalQueue
                ELSE /\ loopPc'[l] = "cleanupLeave"
                     /\ videoQueue' = <<>>
                     /\ originalQueue' = originalQueue
          /\ ((InLoop(l) \/ loopPc[l] \in {"createStreamJoined", "createStream"})
                 /\ loopPc'[l] = "cleanupLeave") =>
                (stopRequested \/ ~loopEnabled \/ originalQueue = <<>>)]_vars

\* the template [1, 2] is in its second pass: item 2 has been fetched, which the
\* first pass did after item 1 was played, and item 1 is the current item again
C23_Witness ==
    /\ loopEnabled
    /\ ~stopRequested
    /\ Ids(originalQueue) = {1, 2}
    /\ Len(videoQueue) = 1
    /\ videoQueue[1].id = 2
    /\ videoQueue[1].link = "fetched"
    /\ \E l \in Loops : loopPc[l] = "nowPlaying" /\ loopNext[l].id = 1

\* Activation l is obtaining its session (lines 192-199)
AcquirePc(l) == loopPc[l] \in {"joinVoice", "createStreamJoined", "createStream"}

\* C24: an activation obtains its session once, on entry and before its first item
\* (the acquisition is entered from idle only, and no voice connection is made while
\* the while loop runs), and the voice connection it plays over is dropped only by
\* the step in which that activation leaves its loop.
C24_SessionOncePerRun ==
    [][\A l \in Loops :
          /\ (~AcquirePc(l) /\ AcquirePc(l)') => (loopPc[l] = "idle" /\ loopNext'[l] = NoItem)
          /\ InLoop(l) => ~(~inVoice /\ inVoice')
          /\ (InLoop(l) /\ inVoice /\ ~inVoice') => loopPc'[l] = "cleanupLeave"]_vars

\* C25: when the acquisition of the session fails, the activation returns with no
\* voice connection held: a connection made by joinVoice before createStream failed
\* has been dropped.
C25_AcquireFailReleases ==
    [][\A l \in Loops : AcquireFail(l) => (~inVoice' /\ ~joined')]_vars

\* What the observer of the command channel would record for a failure notification
FailureNotice == [kind |-> "failure", id |-> 0, link |-> "none"]

\* C26: the failure of the session acquisition puts exactly one failure
\* notification on the command channel, in the step in which the activation
\* returns; the failure of a pre-download or of a transmission puts none there and
\* does not end the activation.
C26_FailureSurfacedOnce ==
    [][\A l \in Loops :
          /\ AcquireFail(l) => log' = Append(log, FailureNotice)
          /\ (PreDownloadFail(l) \/ SkipSeen(l)) =>
                 /\ loopPc'[l] # "idle"
                 /\ isPlayingQueue'
                 /\ \A k \in 1..Len(log') : log'[k] # FailureNotice]_vars

\* The ways a PCancelable settles: resolved with the result, resolved with "error
\* skipped", rejected by cancel()
Outcomes == {"resolved", "skipped", "canceled"}

\* C27: when playVideoWithConnection is left after its handle has settled, whichever
\* way it settled, the speaking and video indicators are off and currentPlayback is
\* null.
C27_ReturnClearsIndicators ==
    [][\A l \in Loops :
          (loopPc[l] = "finished" /\ loopPc'[l] # "finished") =>
              /\ hState[loopH[l]] \in Outcomes
              /\ loopPc'[l] = "cooldown"
              /\ ~speaking'
              /\ currentPlayback' = 0]_vars

\* C28: currentPlayback is null whenever isPlayingQueue is false, and it is
\* non-null only while the handle it refers to is unsettled and is the one the
\* activation awaits for its current item.
C28_HandleWithinItem ==
    /\ ~isPlayingQueue => currentPlayback = 0
    /\ currentPlayback # 0 =>
           /\ currentPlayback \in Handles
           /\ hState[currentPlayback] = "pending"
           /\ \E l \in Loops : loopPc[l] = "transmit" /\ loopH[l] = currentPlayback

\* C29: within one activation, the shift of an item that is not the first is made
\* by the step that ends the cooldown timer of the item handled before it, whether
\* that item was played, skipped on a transmission error or failed to pre-download.
C29_CooldownBetweenItems ==
    [][\A l \in Loops :
          (loopNext[l] # NoItem /\ loopPc'[l] \in {"download", "nowPlaying"} /\ LoopTopStep(l))
              => loopPc[l] = "cooldown"]_vars

\* C30: loopEnabled changes only in a step of the loop command (on or off), and a
\* step that toggles it changes nothing else of the queues, the activations, the
\* handles or the session, whatever the activation is doing, and is not a stop (a
\* stop leaves loopEnabled as it is); and the shift of an item from a non-empty
\* videoQueue is the same whatever the flag is.
C30_LoopFlagFrame ==
    [][/\ loopEnabled' # loopEnabled =>
              /\ LoopCmd("on") \/ LoopCmd("off")
              /\ UNCHANGED <<queueVars, loopVars, handleVars, sessVars,
                             isPlayingQueue, stopRequested>>
              /\ ~Stop
       /\ \A l \in Loops :
              (~stopRequested /\ videoQueue # <<>> /\ LoopTopStep(l)) =>
                  /\ loopNext'[l] = Head(videoQueue)
                  /\ videoQueue' = Tail(videoQueue)
                  /\ originalQueue' = originalQueue]_vars

\* looping is on, which only a loop command can have done, while an item is being
\* fetched or transmitted and another one is pending
C30_Witness ==
    /\ loopEnabled
    /\ videoQueue # <<>>
    /\ \E l \in Loops : loopPc[l] \in {"download", "transmit"} /\ loopNext[l] # NoItem

\* The items of q are in the order in which they were created
InEnqueueOrder(q) == \A i, j \in 1..Len(q) : i < j => q[i].id < q[j].id

\* Activation l shifts an item in this step
PopStep(l) == loopPc'[l] \in {"download", "nowPlaying"} /\ LoopTopStep(l)

\* C31: FIFO.  videoQueue and originalQueue hold their items in enqueue order at every
\* instant; each shift takes the first element of videoQueue (refilled from
\* originalQueue when it is empty and looping is on), leaves the rest in order, and
\* the item that is then fetched and played is the one that was shifted.
C31_Fifo ==
    /\ [](InEnqueueOrder(videoQueue) /\ InEnqueueOrder(originalQueue))
    /\ [][\A l \in Loops :
             /\ PopStep(l) =>
                    /\ loopNext'[l] = Head(Refilled)
                    /\ videoQueue' = Tail(Refilled)
             /\ (loopPc[l] = "nowPlaying" /\ loopPc'[l] = "transmit") =>
                    (loopNext'[l] = loopNext[l] /\ videoQueue' = videoQueue)]_vars

\* with looping off, item 1 has been shifted and item 2, enqueued after it, is the
\* one being played
C31_Witness ==
    /\ ~loopEnabled
    /\ Ids(originalQueue) = {1, 2}
    /\ videoQueue = <<>>
    /\ \E l \in Loops : loopPc[l] = "transmit" /\ loopNext[l].id = 2

\* The uids of originalQueue are pairwise different
UniqueUids == \A i, j \in 1..Len(originalQueue) :
                  originalQueue[i].uid = originalQueue[j].uid => i = j

\* C32: a remove with a uid that is in both videoQueue and originalQueue takes one
\* and the same item out of both, and leaves the other items of both in their order.
C32_RemoveSameItem ==
    [][\A u \in UIDs :
          (~AbsentUid(u) /\ Remove(u)) =>
              \E i \in Ids(videoQueue) \cap Ids(originalQueue) :
                  /\ videoQueue' = SelectSeq(videoQueue, LAMBDA q : q.id # i)
                  /\ originalQueue' = SelectSeq(originalQueue, LAMBDA q : q.id # i)]_vars

\* C33: at every instant no two items of originalQueue have the same uid: add and
\* batch never append an item whose uid is already there.
C33_UidsUnique == UniqueUids

\* How many events of that kind the observer has recorded for item i
NoticeCount(kind, i) ==
    Cardinality({k \in 1..Len(log) : log[k].kind = kind /\ log[k].id = i})

\* What the observer would record for a notification that the queue is exhausted
ExhaustedNotice == [kind |-> "exhausted", id |-> 0, link |-> "none"]

\* C34: one notification per transition.  An item is announced ("Now Playing") once
\* before its transmission starts; an activation that leaves the await of the
\* handle goes to the "Finished" notification and from there to the cooldown; the
\* handler of a stop sends one reply; and an activation that returns because the
\* queue is exhausted has put one notification of that on the command channel.
C34_OneNoticePerTransition ==
    /\ [](\A i \in 1..MaxItems :
             /\ NoticeCount("transmit", i) <= NoticeCount("play", i)
             /\ NoticeCount("play", i) <= 1)
    /\ [][\A l \in Loops :
             /\ (loopPc[l] = "transmit" /\ loopPc'[l] # "transmit") => loopPc'[l] = "finished"
             /\ (loopPc[l] = "finished" /\ loopPc'[l] # "finished") => loopPc'[l] = "cooldown"]_vars
    /\ [][StopCleanupDone => log' = Append(log, Event("stopped", NoItem))]_vars
    /\ [][\A l \in Loops :
             (loopPc[l] = "cleanupDelay" /\ ~stopRequested /\ Pops # <<>> /\ CleanupDone(l)) =>
                 Cardinality({k \in 1..Len(log') : log'[k] = ExhaustedNotice}) = 1]_vars

\* The link of item i in queue q, "none" when it is not there
LinkIn(q, i) == IF i \in Ids(q) THEN q[CHOOSE k \in 1..Len(q) : q[k].id = i].link ELSE "none"

\* C35: an item is pre-downloaded only while its link is remote.  A pre-download
\* that succeeds puts the local path into the item wherever it is queued, and that
\* link never becomes remote again, so a later pass plays the item without a
\* pre-download; a pre-download that fails leaves the link remote, so the next pass
\* pre-downloads the item again.
C35_FetchedOnce ==
    /\ [](\A l \in Loops : loopPc[l] = "download" => loopNext[l].link = "remote")
    /\ [][\A l \in Loops :
             /\ (loopPc[l] = "download" /\ PreDownloadDone(l)) =>
                    /\ LinkIn(originalQueue', loopNext[l].id) \in {"fetched", "none"}
                    /\ LinkIn(videoQueue', loopNext[l].id) \in {"fetched", "none"}
             /\ (loopPc[l] = "download" /\ PreDownloadFail(l)) =>
                    LinkIn(originalQueue', loopNext[l].id) \in {"remote", "none"}
             /\ (Refilled # <<>> /\ PopStep(l)) =>
                    loopPc'[l] = IF Head(Refilled).link = "remote"
                                 THEN "download" ELSE "nowPlaying"]_vars
    /\ [][originalQueue' # originalQueue =>
              \A i \in Ids(originalQueue) :
                  LinkIn(originalQueue, i) \in {"fetched", "local"} =>
                      LinkIn(originalQueue', i) \in {LinkIn(originalQueue, i), "none"}]_vars

\* second pass over the template [1, 2]: item 2 was fetched in the first pass and
\* waits to be replayed from its local path; the first pre-download of item 1
\* failed, item 1 is still remote and is being pre-downloaded again
C35_Witness ==
    /\ loopEnabled
    /\ Len(originalQueue) = 2
    /\ LinkIn(originalQueue, 1) = "remote"
    /\ LinkIn(originalQueue, 2) = "fetched"
    /\ Ids(videoQueue) = {2}
    /\ \E l \in Loops : loopPc[l] = "download" /\ loopNext[l].id = 1

\* The ids of q in the order of q
IdSeq(q) == [k \in 1..Len(q) |-> q[k].id]

\* C36: an item leaves originalQueue only in a step of remove or of stop; every
\* step of playQueue (shift, failed or successful pre-download, refill, exit) leaves
\* the items of originalQueue and their order as they are, so a refill in a later
\* run finds the items that an earlier run has played.
C36_TemplateKeepsItems ==
    [][/\ (Ids(originalQueue) \ Ids(originalQueue') # {}) => (Stop \/ \E u \in UIDs : Remove(u))
       /\ (\E l \in Loops : loopPc'[l] # loopPc[l]) => IdSeq(originalQueue') = IdSeq(originalQueue)
       /\ \A l \in Loops :
              (videoQueue = <<>> /\ PopStep(l)) =>
                  (loopNext'[l] = Head(originalQueue) /\ videoQueue' = Tail(originalQueue))]_vars

\* a run has fetched and played item 1 and has returned because the queue was
\* exhausted (a stop would have emptied originalQueue): item 1 is still in the
\* template, with its local path
C36_Witness ==
    /\ Idle
    /\ startPending = 0
    /\ stopPending = 0
    /\ videoQueue = <<>>
    /\ Len(originalQueue) = 1
    /\ originalQueue[1].link = "fetched"

\* C37: whenever a transmission is running for a handle that has not settled,
\* currentPlayback refers to that handle (so that a stop cancels it); and a step of
\* the random command or of its playback leaves currentPlayback alone while it
\* refers to the unsettled handle of the queue item being transmitted.
C37_HandleTracked ==
    /\ [](\A h \in Handles : (txRunning[h] /\ hState[h] = "pending") => currentPlayback = h)
    /\ [][\A l \in Loops :
             (/\ loopPc[l] = "transmit"
              /\ currentPlayback = loopH[l]
              /\ hState[loopH[l]] = "pending"
              /\ rndPc' # rndPc) => currentPlayback' = currentPlayback]_vars

\* C38: in the processQueue variant at most one chain of processQueue/playVideo is
\* active at a time, and at most one transmission: add commands that arrive before
\* streamStatus.playing is set start no second consumer.
ActiveChains == {c \in Chains : pqPc[c] # "idle"}
PqTransmitting == {c \in Chains : pqPc[c] = "transmit"}

C38_OneChain ==
    /\ Cardinality(ActiveChains) <= 1
    /\ Cardinality(PqTransmitting) <= 1

\* C39: streamStatus.joined agrees with the ownership of the session.  While an
\* activation of playQueue is transmitting on the voice connection it acquired,
\* joined is true; while the orchestrator is Idle, with no voice connection held,
\* joined is false.  This covers the stop handler whose cleanup resumes after a new
\* run has acquired its session, and the acquisition that fails after joinVoice.
C39_JoinedAgrees ==
    /\ \A l \in Loops : (loopPc[l] = "transmit" /\ inVoice) => joined
    /\ Idle => ~joined
====
